---- MODULE Spec2Model ----
(***************************************************************************)
(* Model of the constraint-search core of the Sudoku CLI: the seeded       *)
(* generator (seededRandom.ts), the rule validator (validatePuzzle.ts),    *)
(* the backtracking solver (solvePuzzle.ts) and the puzzle generator       *)
(* (generatePuzzle.ts).                                                    *)
(*                                                                         *)
(* Grids are functions 0..80 -> 0..9 (the flat, 0-based arrays of the      *)
(* code).  TLC's integers are 32-bit signed, so a JavaScript number that   *)
(* can exceed 2^31 is kept as limbs of 16 bits:                            *)
(*   - a 32-bit word (the operands of the bit operations)  is <<hi, lo>>,  *)
(*   - a non-negative JavaScript number (seed, effectiveSeed, the          *)
(*     generator's state) is <<l3, l2, l1, l0>> = l3*2^48+l2*2^32+l1*2^16  *)
(*     +l0, with l3 unbounded above.                                       *)
(***************************************************************************)
EXTENDS Integers, Sequences, FiniteSets, TLC

VARIABLES
    pc,             \* control position of the running call
    call,           \* number of the generatePuzzle call of this behaviour
    difficulty,     \* generatePuzzle: argument `difficulty`
    seed,           \* generatePuzzle: argument `seed` (a JavaScript number)
    state,          \* createSeededRandom: `let state` (a JavaScript number)
    draws,          \* number of next() calls made on the generator so far
    heap,           \* the grid arrays, by reference (allocation site)
    puzzle,         \* generateSolvedGrid / removeClues: `const puzzle` (a reference)
    solution,       \* generatePuzzle: `const solution` (a reference)
    fillStack,      \* activation records of fillRecursive: [digits, k]
    array,          \* shuffle: the array being shuffled
    shuffleI,       \* shuffle: the loop variable `i`
    targetClues,    \* generatePuzzle: `const targetClues`
    indices,        \* removeClues: `const indices`
    pos,            \* removeClues: position of the for-of loop in indices
    cluesRemaining, \* removeClues: `let cluesRemaining`
    backup,         \* removeClues: `const backup`
    input,          \* solvePuzzle / countSolutions: argument `puzzle` (a reference)
    workingPuzzle,  \* solvePuzzle: `const workingPuzzle` (a reference)
    stack,          \* activation records of the recursive search: [emptyIndex, digit]
    count,          \* countSolutions: solutions counted so far
    limit,          \* countSolutions: argument `limit`
    caller,         \* where the running solvePuzzle / countSolutions call returns to
    result,         \* value returned by generatePuzzle
    solveResult,    \* value returned by solvePuzzle
    solutionCount,  \* value returned by countSolutions to the test
    snapshot,       \* the test's copy of the grid it passes to a call
    first,          \* result of the first generatePuzzle call
    streams,        \* generator state created per difficulty for one seed
    validated,      \* value returned by validatePuzzle to its caller
    suspended,      \* the local variables of a call that is not running
    alone,          \* results of the calls that ran with no other call around
    phase,          \* which run of the two calls is under way
    disk,           \* the files existsSync and readFileSync see, by path
    argument,       \* parsePuzzleInput / parsePuzzleString: the string passed
    puzzleString,   \* parsePuzzleInput: `let puzzleString`
    parsed          \* what the parse call returned or threw

vars == <<pc, call, difficulty, seed, state, draws, heap, puzzle, solution,
          fillStack, array, shuffleI, targetClues, indices, pos, cluesRemaining,
          backup, input, workingPuzzle, stack, count, limit, caller, result,
          solveResult, solutionCount, snapshot, first, streams, validated,
          suspended, alone, phase, disk, argument, puzzleString, parsed>>

(***************************************************************************)
(* 16-bit limb arithmetic                                                  *)
(***************************************************************************)
B16 == 65536

\* powers of two, Pow2(k) = 2^k for k \in 0..30
Pow2Table ==
    <<1, 2, 4, 8, 16, 32, 64, 128, 256, 512, 1024, 2048, 4096, 8192, 16384,
      32768, 65536, 131072, 262144, 524288, 1048576, 2097152, 4194304,
      8388608, 16777216, 33554432, 67108864, 134217728, 268435456,
      536870912, 1073741824>>
Pow2(k) == Pow2Table[k + 1]

Bit(a, i) == (a \div Pow2(i)) % 2

\* bitwise xor and or of two 4-bit numbers, tabulated
Xor4 ==
    [a \in 0..15 |-> [b \in 0..15 |->
        ((Bit(a, 0) + Bit(b, 0)) % 2) + 2 * ((Bit(a, 1) + Bit(b, 1)) % 2)
        + 4 * ((Bit(a, 2) + Bit(b, 2)) % 2) + 8 * ((Bit(a, 3) + Bit(b, 3)) % 2)]]

Or4 ==
    [a \in 0..15 |-> [b \in 0..15 |->
        ((Bit(a, 0) + Bit(b, 0) + 1) \div 2) + 2 * ((Bit(a, 1) + Bit(b, 1) + 1) \div 2)
        + 4 * ((Bit(a, 2) + Bit(b, 2) + 1) \div 2)
        + 8 * ((Bit(a, 3) + Bit(b, 3) + 1) \div 2)]]

Nibble(a, i) == (a \div Pow2(4 * i)) % 16

\* bitwise xor and or of two 16-bit numbers
Xor16(a, b) ==
    Xor4[Nibble(a, 0)][Nibble(b, 0)] + 16 * Xor4[Nibble(a, 1)][Nibble(b, 1)]
    + 256 * Xor4[Nibble(a, 2)][Nibble(b, 2)] + 4096 * Xor4[Nibble(a, 3)][Nibble(b, 3)]

Or16(a, b) ==
    Or4[Nibble(a, 0)][Nibble(b, 0)] + 16 * Or4[Nibble(a, 1)][Nibble(b, 1)]
    + 256 * Or4[Nibble(a, 2)][Nibble(b, 2)] + 4096 * Or4[Nibble(a, 3)][Nibble(b, 3)]

\* a ^ b on 32-bit words
Xor32(a, b) == <<Xor16(a[1], b[1]), Xor16(a[2], b[2])>>

\* a | k for a small constant k < 2^16
OrSmall(a, k) == <<a[1], Or16(a[2], k)>>

\* a >>> k for 0 < k < 16
Shr32(a, k) ==
    <<a[1] \div Pow2(k), (a[2] \div Pow2(k)) + (a[1] % Pow2(k)) * Pow2(16 - k)>>

\* (a + b) mod 2^32
Add32(a, b) ==
    LET lo == a[2] + b[2]
        hi == a[1] + b[1] + (lo \div B16)
    IN  <<hi % B16, lo % B16>>

\* the 32-bit product of two 16-bit numbers, as a word
Mul16(a, b) ==
    LET p0 == (a % 256) * b                 \* < 2^24
        p1 == (a \div 256) * b              \* < 2^24, weight 2^8
        lo == (p0 % B16) + (p1 % 256) * 256
        hi == (p0 \div B16) + (p1 \div 256) + (lo \div B16)
    IN  <<hi % B16, lo % B16>>

\* Math.imul(a, b): the low 32 bits of the product
Imul(a, b) ==
    LET ll == Mul16(a[2], b[2])
        hl == Mul16(a[1], b[2])
        lh == Mul16(a[2], b[1])
    IN  <<(ll[1] + hl[2] + lh[2]) % B16, ll[2]>>

(***************************************************************************)
(* JavaScript numbers (non-negative integers held in doubles)              *)
(***************************************************************************)
Num(n) == <<0, 0, n \div B16, n % B16>>     \* a number below 2^31

\* carry propagation: every limb but the first back into 0..2^16-1
Normalize(n) ==
    LET c0 == n[4] \div B16
        l1 == n[3] + c0
        c1 == l1 \div B16
        l2 == n[2] + c1
        c2 == l2 \div B16
    IN  <<n[1] + c2, l2 % B16, l1 % B16, n[4] % B16>>

\* number of significant bits of k, for 0 <= k < 2^30
BitLen(k) == Cardinality({b \in 0..30 : Pow2(b) <= k})

\* The double nearest to the exact integer n (round half to even).  A double
\* holds 53 significant bits, so integers below 2^53 (l3 < 2^5) are exact.
RoundDouble(n) ==
    IF n[1] < 32 THEN n
    ELSE LET e    == BitLen(n[1]) - 5       \* the low e bits are dropped
             unit == Pow2(e)
             rem  == n[4] % unit
             base == <<n[1], n[2], n[3], n[4] - rem>>
             odd  == IF e < 16 THEN (n[4] \div unit) % 2 = 1 ELSE n[3] % 2 = 1
             up   == rem * 2 > unit \/ (rem * 2 = unit /\ odd)
         IN  IF up THEN Normalize(<<base[1], base[2], base[3], base[4] + unit>>)
             ELSE base

\* a * k and a + k in double arithmetic, for a small integer k
TimesSmall(a, k) == RoundDouble(Normalize(<<a[1] * k, a[2] * k, a[3] * k, a[4] * k>>))
PlusSmall(a, k) == RoundDouble(Normalize(<<a[1], a[2], a[3], a[4] + k>>))

\* x >>> 0 (ToUint32) and the conversions used by the bit operators
ToUint32(n) == <<n[3], n[4]>>
FromUint32(w) == <<0, 0, w[1], w[2]>>

(***************************************************************************)
(* seededRandom.ts.  The generator is the closure variable `state`; every  *)
(* operator takes the state and returns the new state with its value.      *)
(***************************************************************************)
IncHi == 27947                              \* 0x6d2b
IncLo == 31221                              \* 0x79f5

\* createSeededRandom: let state = seed >>> 0
createSeededRandom(s) == FromUint32(ToUint32(s))

\* state += 0x6d2b79f5: a plain number addition, no wrap to 32 bits
Advance(st) == RoundDouble(Normalize(<<st[1], st[2], st[3] + IncHi, st[4] + IncLo>>))

\* The mixing of next(); the bit operators read their operands modulo 2^32.
Mix(st) ==
    LET t0 == ToUint32(st)
        t1 == Imul(Xor32(t0, Shr32(t0, 15)), OrSmall(t0, 1))
        t2 == Xor32(t1, Add32(t1, Imul(Xor32(t1, Shr32(t1, 7)), OrSmall(t1, 61))))
    IN  Xor32(t2, Shr32(t2, 14))

\* next(): value is the numerator u of the returned float u / 4294967296
next(st) ==
    LET s1 == Advance(st)
    IN  [state |-> s1, value |-> Mix(s1)]

\* Math.floor(u / 2^32 * n) for 0 < n < 2^15 (the product is exact in a double)
FloorScale(u, n) == ((u[1] * n) + ((u[2] * n) \div B16)) \div B16

\* nextInt with the range one too wide
nextIntWide(st, min, max) ==
    LET d == next(st)
    IN  [state |-> d.state, value |-> FloorScale(d.value, max - min + 2) + min]

\* nextInt(min, max) = Math.floor(next() * (max - min + 1)) + min
nextInt(st, min, max) ==
    LET d == next(st)
    IN  [state |-> d.state, value |-> FloorScale(d.value, max - min + 1) + min]

Length(a) == Cardinality(DOMAIN a)

Swap(a, x, y) == [a EXCEPT ![x] = a[y], ![y] = a[x]]

\* the iteration with j drawn from the whole array
shuffleIterationAnyIndex(a, st, x) ==
    LET d == nextInt(st, 0, Length(a) - 1)
    IN  [state |-> d.state, array |-> Swap(a, x, d.value)]

\* the iteration with a draw thrown away before the one it uses
shuffleIterationTwoDraws(a, st, x) ==
    LET d == nextInt(next(st).state, 0, x)
    IN  [state |-> d.state, array |-> Swap(a, x, d.value)]

\* One iteration of the loop of shuffle at loop variable x:
\*   const j = nextInt(0, x); [array[x], array[j]] = [array[j], array[x]]
shuffleIteration(a, st, x) ==
    LET d == nextInt(st, 0, x)
    IN  [state |-> d.state, array |-> Swap(a, x, d.value)]

(***************************************************************************)
(* puzzle.ts: grids and the grid accessors                                 *)
(***************************************************************************)
Cells == 0..80
Digits == 1..9

\* Array(81).fill(0)
createEmptyPuzzle == [c \in Cells |-> 0]

\* [...Array(n).keys()]
\* a list of n indices in which every index stands twice
KeysTwice(n) == [k \in 0..(n - 1) |-> k \div 2]

Keys(n) == [k \in 0..(n - 1) |-> k]

getRow(g, rowIndex) == [k \in 0..8 |-> g[rowIndex * 9 + k]]

getColumn(g, colIndex) == [k \in 0..8 |-> g[k * 9 + colIndex]]

getBox(g, boxIndex) ==
    LET startRow == (boxIndex \div 3) * 3
        startCol == (boxIndex % 3) * 3
    IN  [k \in 0..8 |-> g[(startRow + (k \div 3)) * 9 + startCol + (k % 3)]]

\* Array.prototype.includes
includes(values, v) == \E k \in DOMAIN values : values[k] = v

(***************************************************************************)
(* validatePuzzle.ts                                                       *)
(***************************************************************************)
undefined == -1

\* a scan without `if (val === 0) continue`: blanks repeat each other
findDuplicateValue(values) ==
    LET repeats == {k \in DOMAIN values : \E j \in 0..(k - 1) : values[j] = values[k]}
    IN  IF repeats = {} THEN undefined
        ELSE values[CHOOSE k \in repeats : \A m \in repeats : k <= m]

\* the first value that repeats an earlier non-zero value, in scan order
findDuplicateDigit(values) ==
    LET repeats == {k \in DOMAIN values :
                      values[k] # 0 /\ \E j \in 0..(k - 1) : values[j] = values[k]}
    IN  IF repeats = {} THEN undefined
        ELSE values[CHOOSE k \in repeats : \A m \in repeats : k <= m]

\* an error that carries the number shown in its message, i + 1, as its index
GroupErrorOneBased(rule, i, dup) ==
    [rule |-> rule, index |-> i + 1, digit |-> dup,
     message |-> <<"Duplicate digit ", dup, " in ", rule, " ", i + 1>>]

\* the error pushed for group number i of a rule, when it has a duplicate
GroupError(rule, i, dup) ==
    [rule |-> rule, index |-> i, digit |-> dup,
     message |-> <<"Duplicate digit ", dup, " in ", rule, " ", i + 1>>]

GroupValues(g, rule, i) ==
    IF rule = "row" THEN getRow(g, i)
    ELSE IF rule = "column" THEN getColumn(g, i)
    ELSE getBox(g, i)

\* rows 0-8, then columns 0-8, then boxes 0-8
RuleOrder == <<"row", "column", "box">>

\* a size check that only rejects grids that are too short:
\*   if (puzzle.length < 81)
validatePuzzleAtLeast81(g) ==
    IF Length(g) < 81
    THEN [isValid |-> FALSE,
          errors |-> <<[rule |-> "size",
                        message |-> <<"Invalid puzzle size: expected 81 cells, got ",
                                      Length(g)>>]>>]
    ELSE LET checks == [n \in 1..27 |->
                          LET rule == RuleOrder[((n - 1) \div 9) + 1]
                              i    == (n - 1) % 9
                          IN  GroupError(rule, i, findDuplicateDigit(GroupValues(g, rule, i)))]
             errors == SelectSeq(checks, LAMBDA e : e.digit # undefined)
         IN  [isValid |-> Len(errors) = 0, errors |-> errors]

validatePuzzle(g) ==
    IF Length(g) # 81
    THEN [isValid |-> FALSE,
          errors |-> <<[rule |-> "size",
                        message |-> <<"Invalid puzzle size: expected 81 cells, got ",
                                      Length(g)>>]>>]
    ELSE LET checks == [n \in 1..27 |->
                          LET rule == RuleOrder[((n - 1) \div 9) + 1]
                              i    == (n - 1) % 9
                          IN  GroupError(rule, i, findDuplicateDigit(GroupValues(g, rule, i)))]
             errors == SelectSeq(checks, LAMBDA e : e.digit # undefined)
         IN  [isValid |-> Len(errors) = 0, errors |-> errors]

(***************************************************************************)
(* solvePuzzle.ts: helpers of the recursive search                         *)
(***************************************************************************)
\* a placement test that leaves out the column
isValidPlacementNoColumn(g, index, digit) ==
    LET row      == index \div 9
        col      == index % 9
        boxIndex == (row \div 3) * 3 + (col \div 3)
    IN  /\ ~includes(getRow(g, row), digit)
        /\ ~includes(getBox(g, boxIndex), digit)

isValidPlacement(g, index, digit) ==
    LET row      == index \div 9
        col      == index % 9
        boxIndex == (row \div 3) * 3 + (col \div 3)
    IN  /\ ~includes(getRow(g, row), digit)
        /\ ~includes(getColumn(g, col), digit)
        /\ ~includes(getBox(g, boxIndex), digit)

\* the first filled cell: puzzle.findIndex((cell) => cell !== 0)
findFilledCell(g) ==
    IF \E c \in DOMAIN g : g[c] # 0
    THEN CHOOSE c \in DOMAIN g : g[c] # 0 /\ \A b \in 0..(c - 1) : g[b] = 0
    ELSE -1

\* puzzle.findIndex((cell) => cell === 0)
findEmptyCell(g) ==
    IF \E c \in DOMAIN g : g[c] = 0
    THEN CHOOSE c \in DOMAIN g : g[c] = 0 /\ \A b \in 0..(c - 1) : g[b] # 0
    ELSE -1

\* a digit loop that stops before 9: for (...; digit < 9; digit++)
PlaceableBelowNine(g, index, digit) == {d \in digit..8 : isValidPlacement(g, index, d)}

\* a digit loop that starts again at 1 after every recursive call
PlaceableFromOne(g, index, digit) == {d \in 1..9 : isValidPlacement(g, index, d)}

\* The digits digit, digit+1, ..., 9 of the loop `for (digit <= 9; digit++)`
\* that pass isValidPlacement; the loop places the smallest of them.
PlaceableFrom(g, index, digit) == {d \in digit..9 : isValidPlacement(g, index, d)}

\* the loop placing the last digit that passes
Greatest(S) == CHOOSE x \in S : \A y \in S : y <= x

Min(S) == CHOOSE x \in S : \A y \in S : x <= y

(***************************************************************************)
(* generatePuzzle.ts: helpers                                              *)
(***************************************************************************)
DifficultyNames == <<"easy", "medium", "hard">>

\* ['easy', 'medium', 'hard'].indexOf(difficulty)
indexOf(d) == (CHOOSE n \in 1..3 : DifficultyNames[n] = d) - 1

DIFFICULTY_CLUES ==
    [easy   |-> [min |-> 36, max |-> 45],
     medium |-> [min |-> 27, max |-> 35],
     hard   |-> [min |-> 22, max |-> 26]]

\* const effectiveSeed = seed * 3 + [...].indexOf(difficulty)
effectiveSeed(d, s) == PlusSmall(TimesSmall(s, 3), indexOf(d))

\* a placement check that forgets the box
isValidPlacementRowCol(g, index, digit) ==
    /\ \A c \in 0..8 : g[(index \div 9) * 9 + c] # digit
    /\ \A r \in 0..8 : g[r * 9 + (index % 9)] # digit

\* isValidPlacement of generatePuzzle.ts: the three scans of row, column, box
isValidPlacementGen(g, index, digit) ==
    LET row         == index \div 9
        col         == index % 9
        boxRowStart == (row \div 3) * 3
        boxColStart == (col \div 3) * 3
    IN  /\ \A c \in 0..8 : g[row * 9 + c] # digit
        /\ \A r \in 0..8 : g[r * 9 + col] # digit
        /\ \A r \in 0..2 : \A c \in 0..2 :
              g[(boxRowStart + r) * 9 + (boxColStart + c)] # digit

\* positions k, k+1, ..., 8 of `for (const digit of digits)` whose digit passes
TryableFrom(g, index, digits, k) ==
    {n \in k..8 : isValidPlacementGen(g, index, digits[n])}

(***************************************************************************)
(* The heap: one array per allocation site                                 *)
(***************************************************************************)
Refs == {"filled",      \* generateSolvedGrid: Array(81).fill(0)
         "copy",        \* removeClues: [...solution]
         "working",     \* solvePuzzle / countSolutions: the clone of the argument
         "resolved",    \* solvePuzzle called on a returned solution: its clone
         "given"}       \* the grid a test passes to solvePuzzle / countSolutions
NoGrid == <<>>
NoRef == "none"
EmptyHeap == [r \in Refs |-> NoGrid]

Write(h, ref, index, v) == [h EXCEPT ![ref] = [@ EXCEPT ![index] = v]]

\* removal on the solution array itself: const puzzle = solution
removeCluesAlias(sol) == sol

\* removeClues: const puzzle = [...solution] is a new array
removeCluesCopy(sol) == "copy"

\* the search run on the argument itself: const workingPuzzle = puzzle
aliasOfInput(arg) == arg

\* solvePuzzle: const workingPuzzle = [...puzzle] is a new array
\* (countSolutions clones its argument in the same way)
cloneOfInput(arg) == IF arg = "working" THEN "resolved" ELSE "working"

clueCount(g) == Cardinality({c \in DOMAIN g : g[c] # 0})

(***************************************************************************)
(* Bounds and inputs                                                       *)
(***************************************************************************)
NumCalls == 2           \* generatePuzzle calls made one after the other
\* the calls generatePuzzle(difficulty, seed) that are made
Calls ==
    {<<"easy", 12770>>, <<"medium", 12398>>, <<"hard", 12398>>, <<"hard", 12770>>}

groupsGen == <<difficulty, seed, targetClues, indices, pos, cluesRemaining, backup>>
groupsFill == <<fillStack>>
groupsShuffle == <<array, shuffleI>>
groupsRng == <<state, draws>>
groupsSearch == <<input, workingPuzzle, stack, count, limit, caller>>
groupsTest == <<solveResult, solutionCount, snapshot, first, streams, call>>
groupsPair == <<validated, suspended, alone, phase>>
groupsParse == <<disk, argument, puzzleString, parsed>>

(***************************************************************************)
(* seededRandom.ts: shuffle, one loop iteration per step                   *)
(***************************************************************************)
ShufflePcs == {"fill_shuffle", "remove_shuffle"}

ShuffleStep ==
    /\ pc \in ShufflePcs
    /\ shuffleI > 0
    /\ LET r == shuffleIteration(array, state, shuffleI)
       IN  /\ array' = r.array
           /\ state' = r.state
    /\ draws' = draws + 1
    /\ shuffleI' = shuffleI - 1
    /\ UNCHANGED <<pc, heap, puzzle, solution, result, groupsGen, groupsFill,
                   groupsSearch, groupsTest, groupsPair, groupsParse>>

(***************************************************************************)
(* generatePuzzle.ts                                                       *)
(***************************************************************************)
\* a generator created once and shared by all calls of generatePuzzle
GenStartShared ==
    /\ pc = "gen_start"
    /\ state' = IF call = 1
                THEN createSeededRandom(effectiveSeed(difficulty, seed))
                ELSE state
    /\ draws' = 0
    /\ heap' = [EmptyHeap EXCEPT !["filled"] = createEmptyPuzzle]
    /\ puzzle' = "filled"
    /\ solution' = NoRef
    /\ fillStack' = <<>>
    /\ result' = NoRef
    /\ pc' = "fill_call"
    /\ UNCHANGED <<groupsGen, groupsShuffle, groupsSearch, groupsTest, groupsPair,
                   groupsParse>>

\* generatePuzzle up to the call fillRecursive(0) of generateSolvedGrid
GenStart ==
    /\ pc = "gen_start"
    /\ state' = createSeededRandom(effectiveSeed(difficulty, seed))
    /\ draws' = 0
    /\ heap' = [EmptyHeap EXCEPT !["filled"] = createEmptyPuzzle]
    /\ puzzle' = "filled"
    /\ solution' = NoRef
    /\ fillStack' = <<>>
    /\ result' = NoRef
    /\ pc' = "fill_call"
    /\ UNCHANGED <<groupsGen, groupsShuffle, groupsSearch, groupsTest, groupsPair,
                   groupsParse>>

\* fillRecursive(index) is entered; index is the number of active calls below it
FillCall ==
    /\ pc = "fill_call"
    /\ IF Len(fillStack) = 81
       THEN \* return true, and so does every caller: generateSolvedGrid returns
            /\ solution' = puzzle
            /\ fillStack' = <<>>
            /\ pc' = "gen_validate"
            /\ UNCHANGED groupsShuffle
       ELSE \* rng.shuffle([1, 2, 3, 4, 5, 6, 7, 8, 9]) starts
            /\ array' = [k \in 0..8 |-> k + 1]
            /\ shuffleI' = 8
            /\ pc' = "fill_shuffle"
            /\ UNCHANGED <<solution, fillStack>>
    /\ UNCHANGED <<heap, puzzle, result, groupsGen, groupsRng, groupsSearch, groupsTest, groupsPair,
                   groupsParse>>

\* shuffle returned: const digits = ...; the for-of loop starts
FillShuffled ==
    /\ pc = "fill_shuffle"
    /\ shuffleI <= 0
    /\ fillStack' = Append(fillStack, [digits |-> array, k |-> 0])
    /\ pc' = "fill_loop"
    /\ UNCHANGED <<heap, puzzle, solution, result, groupsGen, groupsShuffle,
                   groupsRng, groupsSearch, groupsTest, groupsPair,
                   groupsParse>>

\* The for-of loop of the innermost fillRecursive call, from its position k to
\* the next recursive call or to `return false`.
FillLoop ==
    /\ pc = "fill_loop"
    /\ LET depth == Len(fillStack)
           index == depth - 1
           frame == fillStack[depth]
           ok    == TryableFrom(heap[puzzle], index, frame.digits, frame.k)
       IN  IF ok # {}
           THEN \* puzzle[index] = digit; fillRecursive(index + 1)
                /\ heap' = Write(heap, puzzle, index, frame.digits[Min(ok)])
                /\ fillStack' = [fillStack EXCEPT ![depth].k = Min(ok) + 1]
                /\ pc' = "fill_call"
                /\ UNCHANGED solution
           ELSE IF depth = 1
           THEN \* fillRecursive(0) returns false; generateSolvedGrid returns puzzle
                /\ solution' = puzzle
                /\ fillStack' = <<>>
                /\ pc' = "gen_validate"
                /\ UNCHANGED heap
           ELSE \* return false; the caller resets its cell: puzzle[index] = 0
                /\ heap' = Write(heap, puzzle, index - 1, 0)
                /\ fillStack' = SubSeq(fillStack, 1, depth - 1)
                /\ pc' = "fill_loop"
                /\ UNCHANGED solution
    /\ UNCHANGED <<puzzle, result, groupsGen, groupsShuffle, groupsRng,
                   groupsSearch, groupsTest, groupsPair, groupsParse>>

\* generatePuzzle after generateSolvedGrid: the validation, the target draw, and
\* removeClues up to its call of rng.shuffle
GenValidate ==
    /\ pc = "gen_validate"
    /\ IF ~validatePuzzle(heap[solution]).isValid
       THEN \* throw new Error('Generated solution failed validation ...')
            /\ pc' = "gen_error"
            /\ UNCHANGED <<heap, puzzle, targetClues, groupsShuffle, groupsRng>>
       ELSE LET range == DIFFICULTY_CLUES[difficulty]
                d     == nextInt(state, range.min, range.max)
                ref   == removeCluesCopy(solution)
            IN  /\ targetClues' = d.value
                /\ state' = d.state
                /\ draws' = draws + 1
                /\ heap' = [heap EXCEPT ![ref] = heap[solution]]
                /\ puzzle' = ref
                /\ array' = Keys(81)
                /\ shuffleI' = 80
                /\ pc' = "remove_shuffle"
    /\ UNCHANGED <<solution, result, difficulty, seed, indices, pos, cluesRemaining,
                   backup, groupsFill, groupsSearch, groupsTest, groupsPair,
                   groupsParse>>

\* shuffle returned: const indices = ...; let cluesRemaining = 81
RemoveShuffled ==
    /\ pc = "remove_shuffle"
    /\ shuffleI <= 0
    /\ indices' = array
    /\ cluesRemaining' = 81
    /\ pos' = 0
    /\ pc' = "remove_loop"
    /\ UNCHANGED <<heap, puzzle, solution, result, difficulty, seed, targetClues,
                   backup, groupsFill, groupsShuffle, groupsRng, groupsSearch,
                   groupsTest, groupsPair, groupsParse>>

\* a walk that stops one clue late: if (cluesRemaining < targetClues) break
targetPassed(remaining, target) == remaining < target

\* if (cluesRemaining <= targetClues) break
targetReached(remaining, target) == remaining <= target

\* a removal kept whenever the grid stays solvable
keepRemovalSolvable(n) == n >= 1

\* a removal never kept: every clue tried is restored
keepRemovalNever(n) == FALSE

\* keep the removal tried last?  (countSolutions(puzzle, 2) !== 1 restores it)
keepRemoval(n) == n = 1

\* One pass of the for-of loop of removeClues up to the call of countSolutions,
\* or the end of removeClues and of generatePuzzle.
RemoveIter ==
    /\ pc = "remove_loop"
    /\ IF pos >= Length(indices) \/ targetReached(cluesRemaining, targetClues)
       THEN \* loop over or break: return puzzle; return {puzzle, solution}
            /\ result' = [puzzle |-> puzzle, solution |-> solution]
            /\ pc' = "gen_done"
            /\ UNCHANGED <<heap, pos, backup, groupsSearch, snapshot>>
       ELSE LET index == indices[pos]
            IN  /\ backup' = heap[puzzle][index]
                /\ IF heap[puzzle][index] = 0
                   THEN \* continue
                        /\ pos' = pos + 1
                        /\ pc' = "remove_loop"
                        /\ UNCHANGED <<heap, groupsSearch, snapshot>>
                   ELSE \* puzzle[index] = 0; countSolutions(puzzle, 2)
                        /\ heap' = Write(heap, puzzle, index, 0)
                        /\ input' = puzzle
                        /\ limit' = 2
                        /\ caller' = "remove"
                        /\ snapshot' = heap'[puzzle]
                        /\ pc' = "count_start"
                        /\ UNCHANGED <<pos, workingPuzzle, stack, count>>
                /\ UNCHANGED result
    /\ UNCHANGED <<puzzle, solution, difficulty, seed, targetClues, indices,
                   cluesRemaining, groupsFill, groupsShuffle, groupsRng,
                   solveResult, solutionCount, first, streams, call, groupsPair,
                   groupsParse>>

\* countSolutions returned to removeClues: restore the clue or count it removed
RemoveDecide ==
    /\ pc = "count_return"
    /\ caller = "remove"
    /\ IF keepRemoval(count)
       THEN /\ cluesRemaining' = cluesRemaining - 1
            /\ UNCHANGED heap
       ELSE /\ heap' = Write(heap, puzzle, indices[pos], backup)
            /\ UNCHANGED cluesRemaining
    /\ pos' = pos + 1
    /\ pc' = "remove_loop"
    /\ UNCHANGED <<puzzle, solution, result, difficulty, seed, targetClues, indices,
                   backup, groupsFill, groupsShuffle, groupsRng, groupsSearch,
                   groupsTest, groupsPair, groupsParse>>

(***************************************************************************)
(* solvePuzzle.ts: solvePuzzle and solveRecursive                          *)
(***************************************************************************)
\* an invalid grid reported as unsolvable
invalidAsUnsolvable(errors) == [status |-> "unsolvable"]

\* the caller's grid returned in place of the solved clone
solvedResultGiven(ref) == [status |-> "solved", solution |-> "given"]

\* the three result shapes of solvePuzzle
invalidResult(errors) == [status |-> "invalid", errors |-> errors]
solvedResult(ref) == [status |-> "solved", solution |-> ref]
unsolvableResult == [status |-> "unsolvable"]

\* solvePuzzle up to the call solveRecursive(workingPuzzle), or its return for
\* an invalid grid
SolveStart ==
    /\ pc = "solve_start"
    /\ LET validation == validatePuzzle(heap[input])
           ref        == cloneOfInput(input)
       IN  IF ~validation.isValid
           THEN /\ solveResult' = invalidResult(validation.errors)
                /\ pc' = "solve_done"
                /\ UNCHANGED <<heap, workingPuzzle, stack>>
           ELSE /\ heap' = [heap EXCEPT ![ref] = heap[input]]
                /\ workingPuzzle' = ref
                /\ stack' = <<>>
                /\ pc' = "solve_call"
                /\ UNCHANGED solveResult
    /\ UNCHANGED <<puzzle, solution, result, input, count, limit, caller,
                   solutionCount, snapshot, first, streams, call, groupsGen,
                   groupsFill, groupsShuffle, groupsRng, groupsPair,
                   groupsParse>>

\* solveRecursive is entered
SolveCall ==
    /\ pc = "solve_call"
    /\ LET emptyIndex == findEmptyCell(heap[workingPuzzle])
       IN  IF emptyIndex = -1
           THEN \* return true, and so does every caller: solvePuzzle returns
                /\ solveResult' = solvedResult(workingPuzzle)
                /\ stack' = <<>>
                /\ pc' = "solve_done"
           ELSE /\ stack' = Append(stack, [emptyIndex |-> emptyIndex, digit |-> 1])
                /\ pc' = "solve_loop"
                /\ UNCHANGED solveResult
    /\ UNCHANGED <<heap, puzzle, solution, result, input, workingPuzzle, count,
                   limit, caller, solutionCount, snapshot, first, streams, call,
                   groupsGen, groupsFill, groupsShuffle, groupsRng, groupsPair,
                   groupsParse>>

\* The digit loop of the innermost solveRecursive call, from its digit to the
\* next recursive call or to `return false`.
SolveLoop ==
    /\ pc = "solve_loop"
    /\ LET depth == Len(stack)
           frame == stack[depth]
           ok    == PlaceableFrom(heap[workingPuzzle], frame.emptyIndex, frame.digit)
       IN  IF ok # {}
           THEN \* puzzle[emptyIndex] = digit; solveRecursive(puzzle)
                /\ heap' = Write(heap, workingPuzzle, frame.emptyIndex, Min(ok))
                /\ stack' = [stack EXCEPT ![depth].digit = Min(ok) + 1]
                /\ pc' = "solve_call"
                /\ UNCHANGED solveResult
           ELSE IF depth = 1
           THEN \* the outermost call returns false
                /\ solveResult' = unsolvableResult
                /\ stack' = <<>>
                /\ pc' = "solve_done"
                /\ UNCHANGED heap
           ELSE \* return false; the caller backtracks: puzzle[emptyIndex] = 0
                /\ heap' = Write(heap, workingPuzzle, stack[depth - 1].emptyIndex, 0)
                /\ stack' = SubSeq(stack, 1, depth - 1)
                /\ pc' = "solve_loop"
                /\ UNCHANGED solveResult
    /\ UNCHANGED <<puzzle, solution, result, input, workingPuzzle, count, limit,
                   caller, solutionCount, snapshot, first, streams, call,
                   groupsGen, groupsFill, groupsShuffle, groupsRng, groupsPair,
                   groupsParse>>

(***************************************************************************)
(* solvePuzzle.ts: countSolutions                                          *)
(***************************************************************************)
\* a search that is never cut short
limitIgnored(n, lim) == FALSE

\* the search stops as soon as the counter has reached the limit
limitReached(n, lim) == n >= lim

\* countSolutions up to the first call of its recursive search
CountStart ==
    /\ pc = "count_start"
    /\ LET ref == cloneOfInput(input)
       IN  /\ heap' = [heap EXCEPT ![ref] = heap[input]]
           /\ workingPuzzle' = ref
    /\ count' = 0
    /\ stack' = <<>>
    /\ pc' = "count_call"
    /\ UNCHANGED <<puzzle, solution, result, input, limit, caller, groupsGen,
                   groupsFill, groupsShuffle, groupsRng, groupsTest, groupsPair,
                   groupsParse>>

\* the recursive search is entered
CountCall ==
    /\ pc = "count_call"
    /\ LET emptyIndex == findEmptyCell(heap[workingPuzzle])
           depth      == Len(stack)
       IN  IF emptyIndex = -1
           THEN \* a solved grid: count it and return
                /\ count' = count + 1
                /\ IF depth = 0
                   THEN /\ pc' = "count_return"
                        /\ UNCHANGED heap
                   ELSE \* the caller takes its digit back
                        /\ heap' = Write(heap, workingPuzzle, stack[depth].emptyIndex, 0)
                        /\ pc' = "count_loop"
                /\ UNCHANGED stack
           ELSE /\ stack' = Append(stack, [emptyIndex |-> emptyIndex, digit |-> 1])
                /\ pc' = "count_loop"
                /\ UNCHANGED <<heap, count>>
    /\ UNCHANGED <<puzzle, solution, result, input, workingPuzzle, limit, caller,
                   groupsGen, groupsFill, groupsShuffle, groupsRng, groupsTest,
                   groupsPair, groupsParse>>

\* The digit loop of the innermost call, from its digit to the next recursive
\* call or to its return.
CountLoop ==
    /\ pc = "count_loop"
    /\ LET depth == Len(stack)
           frame == stack[depth]
           ok    == PlaceableFrom(heap[workingPuzzle], frame.emptyIndex, frame.digit)
       IN  IF ~limitReached(count, limit) /\ ok # {}
           THEN /\ heap' = Write(heap, workingPuzzle, frame.emptyIndex, Min(ok))
                /\ stack' = [stack EXCEPT ![depth].digit = Min(ok) + 1]
                /\ pc' = "count_call"
           ELSE IF depth = 1
           THEN \* the outermost call returns: countSolutions returns count
                /\ stack' = <<>>
                /\ pc' = "count_return"
                /\ UNCHANGED heap
           ELSE \* return; the caller takes its digit back
                /\ heap' = Write(heap, workingPuzzle, stack[depth - 1].emptyIndex, 0)
                /\ stack' = SubSeq(stack, 1, depth - 1)
                /\ pc' = "count_loop"
    /\ UNCHANGED <<puzzle, solution, result, input, workingPuzzle, count, limit,
                   caller, groupsGen, groupsFill, groupsShuffle, groupsRng,
                   groupsTest, groupsPair, groupsParse>>

(***************************************************************************)
(* The callers of generatePuzzle (generator tests)                         *)
(***************************************************************************)
\* the grids a returned pair refers to
Deref(r) == [puzzle |-> heap[r.puzzle], solution |-> heap[r.solution]]

\* a second, independent call generatePuzzle(difficulty, seed)
GenAgain ==
    /\ pc = "gen_done"
    /\ call < NumCalls
    /\ first' = Deref(result)
    /\ call' = call + 1
    /\ pc' = "gen_start"
    /\ UNCHANGED <<heap, puzzle, solution, result, solveResult, solutionCount,
                   snapshot, streams, groupsGen, groupsFill, groupsShuffle,
                   groupsRng, groupsSearch, groupsPair, groupsParse>>

\* const solutionCount = countSolutions(result.puzzle, 2)
TestUniqueness ==
    /\ pc = "gen_done"
    /\ call = NumCalls
    /\ input' = result.puzzle
    /\ snapshot' = heap[result.puzzle]
    /\ limit' = 2
    /\ caller' = "test"
    /\ pc' = "count_start"
    /\ UNCHANGED <<heap, puzzle, solution, result, workingPuzzle, stack, count,
                   solveResult, solutionCount, first, streams, call, groupsGen,
                   groupsFill, groupsShuffle, groupsRng, groupsPair,
                   groupsParse>>

\* countSolutions returned to the test
TestCounted ==
    /\ pc = "count_return"
    /\ caller = "test"
    /\ solutionCount' = count
    /\ pc' = "test_counted"
    /\ UNCHANGED <<heap, puzzle, solution, result, solveResult, snapshot, first,
                   streams, call, groupsGen, groupsFill, groupsShuffle, groupsRng,
                   groupsSearch, groupsPair, groupsParse>>

\* const solveResult = solvePuzzle(result.puzzle), on the grid just counted
TestSolvable ==
    /\ pc = "test_counted"
    /\ snapshot' = heap[input]
    /\ pc' = "solve_start"
    /\ UNCHANGED <<heap, puzzle, solution, result, input, workingPuzzle, stack, count,
                   limit, caller, solveResult, solutionCount, first, streams, call,
                   groupsGen, groupsFill, groupsShuffle, groupsRng, groupsPair,
                   groupsParse>>

(***************************************************************************)
(* generatePuzzle called NumCalls times with the same arguments, then      *)
(* tested                                                                  *)
(***************************************************************************)
Idle ==
    /\ state = Num(0)
    /\ draws = 0
    /\ heap = EmptyHeap
    /\ puzzle = NoRef
    /\ solution = NoRef
    /\ fillStack = <<>>
    /\ array = <<>>
    /\ shuffleI = 0
    /\ targetClues = 0
    /\ indices = <<>>
    /\ pos = 0
    /\ cluesRemaining = 0
    /\ backup = 0
    /\ input = NoRef
    /\ workingPuzzle = NoRef
    /\ stack = <<>>
    /\ count = 0
    /\ limit = 0
    /\ caller = "test"
    /\ result = NoRef
    /\ solveResult = NoRef
    /\ solutionCount = 0
    /\ snapshot = NoGrid
    /\ first = NoRef
    /\ streams = <<>>
    /\ validated = NoRef
    /\ suspended = NoRef
    /\ alone = <<>>
    /\ phase = 0
    /\ disk = <<>>
    /\ argument = <<>>
    /\ puzzleString = <<>>
    /\ parsed = <<>>

Init ==
    /\ pc = "gen_start"
    /\ call = 1
    /\ \E c \in Calls : /\ difficulty = c[1]
                        /\ seed = Num(c[2])
    /\ Idle

Next ==
    \/ GenStart
    \/ FillCall
    \/ ShuffleStep
    \/ FillShuffled
    \/ FillLoop
    \/ GenValidate
    \/ RemoveShuffled
    \/ RemoveIter
    \/ CountStart
    \/ CountCall
    \/ CountLoop
    \/ RemoveDecide
    \/ GenAgain
    \/ TestUniqueness
    \/ TestCounted
    \/ TestSolvable
    \/ SolveStart
    \/ SolveCall
    \/ SolveLoop

Spec == Init /\ [][Next]_vars

(***************************************************************************)
(* Properties of generatePuzzle                                            *)
(***************************************************************************)
noBlank(g) == \A c \in DOMAIN g : g[c] # 0
inRange(n, range) == range.min <= n /\ n <= range.max

\* removeClues has made its copy and the pair it builds is in use
RemovalPcs ==
    {"remove_shuffle", "remove_loop", "count_start", "count_call", "count_loop",
     "count_return", "gen_done", "test_counted", "solve_start", "solve_call",
     "solve_loop", "solve_done"}

\* C1: the puzzle generatePuzzle returns has exactly one solution, that is,
\* countSolutions(result.puzzle, 2) returns 1; and during the removal walk a
\* blanked cell stays blank exactly when countSolutions returned 1 for it.
C1_UniqueSolution ==
    /\ [](pc = "test_counted" => solutionCount = 1)
    /\ [][(pc = "count_return" /\ caller = "remove")
            => ((heap'[puzzle][indices[pos]] = 0) <=> (count = 1))]_vars

\* a returned puzzle with blanks, reached after accepted and rejected removals,
\* has been counted
C1_Witness ==
    /\ pc = "test_counted"
    /\ solutionCount = 1
    /\ cluesRemaining < 81
    /\ pos > 81 - cluesRemaining
    /\ clueCount(heap[result.puzzle]) = cluesRemaining

\* C2: throughout the removal walk and in the returned pair, every non-zero
\* cell of puzzle equals the same cell of solution, and no step of the walk
\* changes the solution grid.
C2_PuzzleWithinSolution ==
    /\ [](pc \in RemovalPcs =>
            \A c \in Cells : heap[puzzle][c] # 0 => heap[puzzle][c] = heap[solution][c])
    /\ [][(pc \in RemovalPcs /\ pc' \in RemovalPcs)
            => (heap'[solution] = heap[solution])]_vars

\* a pair is returned whose puzzle has blanks and whose solution has none
C2_Witness ==
    /\ pc = "gen_done"
    /\ result.puzzle # result.solution
    /\ clueCount(heap[result.puzzle]) < 81
    /\ clueCount(heap[result.solution]) = 81

\* C3: the grid generateSolvedGrid returns has no blank cell and passes
\* validatePuzzle, so generatePuzzle never throws its validation error, and
\* the solution it returns is that full valid grid.
C3_SolutionFullAndValid ==
    /\ pc # "gen_error"
    /\ pc \in {"gen_validate", "gen_done"} =>
         /\ noBlank(heap[solution])
         /\ validatePuzzle(heap[solution]).isValid

\* generateSolvedGrid returned a full valid grid after backtracking: more than
\* 81 shuffles of 8 draws were made
C3_Witness ==
    /\ pc = "gen_validate"
    /\ draws > 81 * 8
    /\ noBlank(heap[solution])
    /\ validatePuzzle(heap[solution]).isValid

C5_Deterministic ==
    (pc = "gen_done" /\ call > 1) => Deref(result) = first

\* the second call has returned a puzzle with blanks
C5_Witness ==
    /\ pc = "gen_done"
    /\ call = 2
    /\ Deref(result) = first
    /\ clueCount(first.puzzle) < 81

(***************************************************************************)
(* The grids the solver tests pass to solvePuzzle and countSolutions       *)
(***************************************************************************)
FromDigits(q) == [c \in 0..(Len(q) - 1) |-> q[c + 1]]

EASY_PUZZLE ==
    FromDigits(<<5, 3, 0, 0, 7, 0, 0, 0, 0,
                 6, 0, 0, 1, 9, 5, 0, 0, 0,
                 0, 9, 8, 0, 0, 0, 0, 6, 0,
                 8, 0, 0, 0, 6, 0, 0, 0, 3,
                 4, 0, 0, 8, 0, 3, 0, 0, 1,
                 7, 0, 0, 0, 2, 0, 0, 0, 6,
                 0, 6, 0, 0, 0, 0, 2, 8, 0,
                 0, 0, 0, 4, 1, 9, 0, 0, 5,
                 0, 0, 0, 0, 8, 0, 0, 7, 9>>)

EASY_SOLUTION ==
    FromDigits(<<5, 3, 4, 6, 7, 8, 9, 1, 2,
                 6, 7, 2, 1, 9, 5, 3, 4, 8,
                 1, 9, 8, 3, 4, 2, 5, 6, 7,
                 8, 5, 9, 7, 6, 1, 4, 2, 3,
                 4, 2, 6, 8, 5, 3, 7, 9, 1,
                 7, 1, 3, 9, 2, 4, 8, 5, 6,
                 9, 6, 1, 5, 3, 7, 2, 8, 4,
                 2, 8, 7, 4, 1, 9, 6, 3, 5,
                 3, 4, 5, 2, 8, 6, 1, 7, 9>>)

MEDIUM_PUZZLE ==
    FromDigits(<<0, 0, 3, 0, 2, 0, 6, 0, 0,
                 9, 0, 0, 3, 0, 5, 0, 0, 1,
                 0, 0, 1, 8, 0, 6, 4, 0, 0,
                 0, 0, 8, 1, 0, 2, 9, 0, 0,
                 7, 0, 0, 0, 0, 0, 0, 0, 8,
                 0, 0, 6, 7, 0, 8, 2, 0, 0,
                 0, 0, 2, 6, 0, 9, 5, 0, 0,
                 8, 0, 0, 2, 0, 3, 0, 0, 9,
                 0, 0, 5, 0, 1, 0, 3, 0, 0>>)

MEDIUM_SOLUTION ==
    FromDigits(<<4, 8, 3, 9, 2, 1, 6, 5, 7,
                 9, 6, 7, 3, 4, 5, 8, 2, 1,
                 2, 5, 1, 8, 7, 6, 4, 9, 3,
                 5, 4, 8, 1, 3, 2, 9, 7, 6,
                 7, 2, 9, 5, 6, 4, 1, 3, 8,
                 1, 3, 6, 7, 9, 8, 2, 4, 5,
                 3, 7, 2, 6, 8, 9, 5, 1, 4,
                 8, 1, 4, 2, 5, 3, 7, 6, 9,
                 6, 9, 5, 4, 1, 7, 3, 8, 2>>)

INVALID_PUZZLE ==
    FromDigits(<<5, 1, 5, 0, 7, 0, 0, 0, 0,
                 6, 0, 0, 1, 9, 5, 0, 0, 0,
                 0, 9, 8, 0, 0, 0, 0, 6, 0,
                 8, 0, 0, 0, 6, 0, 0, 0, 3,
                 4, 0, 0, 8, 0, 3, 0, 0, 1,
                 7, 0, 0, 0, 2, 0, 0, 0, 6,
                 0, 6, 0, 0, 0, 0, 2, 8, 0,
                 0, 0, 0, 4, 1, 9, 0, 0, 5,
                 0, 0, 0, 0, 8, 0, 0, 7, 9>>)

UNSOLVABLE_PUZZLE ==
    FromDigits(<<5, 1, 6, 8, 4, 9, 7, 3, 2,
                 3, 0, 7, 6, 0, 5, 0, 0, 0,
                 8, 0, 9, 7, 0, 0, 0, 6, 5,
                 1, 3, 5, 0, 6, 0, 9, 0, 7,
                 4, 7, 2, 5, 9, 1, 0, 0, 6,
                 9, 6, 8, 3, 7, 0, 0, 5, 0,
                 2, 5, 3, 1, 8, 6, 0, 7, 4,
                 6, 8, 4, 2, 0, 7, 5, 0, 0,
                 7, 9, 1, 0, 5, 0, 6, 0, 8>>)

ALREADY_SOLVED == EASY_SOLUTION

\* EASY_SOLUTION with the four corners of an interchangeable rectangle blanked:
\* a grid with two solutions
TWO_SOLUTIONS == [c \in Cells |-> IF c \in {3, 4, 30, 31} THEN 0 ELSE EASY_SOLUTION[c]]

\* a full grid of 80 cells
SHORT_GRID == [c \in 0..79 |-> EASY_SOLUTION[c]]

\* EASY_SOLUTION with the digits a and b exchanged: again a full valid grid
Relabelled(a, b) ==
    [c \in Cells |-> IF EASY_SOLUTION[c] = a THEN b
                     ELSE IF EASY_SOLUTION[c] = b THEN a
                     ELSE EASY_SOLUTION[c]]

FullGrids == {Relabelled(a, b) : a, b \in Digits} \cup {MEDIUM_SOLUTION}

PoolSize == 3                   \* cells of EASY_SOLUTION replaced by any of 0..9
PoolCells == <<3, 4, 30, 31, 0>>

PoolGrids ==
    {[c \in Cells |-> IF \E k \in 1..PoolSize : PoolCells[k] = c
                      THEN f[CHOOSE k \in 1..PoolSize : PoolCells[k] = c]
                      ELSE EASY_SOLUTION[c]] : f \in [1..PoolSize -> 0..9]}

TestGrids ==
    PoolGrids \cup FullGrids
              \cup {EASY_PUZZLE, MEDIUM_PUZZLE, INVALID_PUZZLE, UNSOLVABLE_PUZZLE,
                    TWO_SOLUTIONS, SHORT_GRID}

\* a test holds one grid of G, and a limit of L for countSolutions
TestSetup(G, L) ==
    /\ call = 1
    /\ difficulty = "easy"
    /\ seed = Num(0)
    /\ state = Num(0)
    /\ draws = 0
    /\ \E g \in G : /\ heap = [EmptyHeap EXCEPT !["given"] = g]
                    /\ snapshot = g
    /\ input = "given"
    /\ limit \in L
    /\ caller = "test"
    /\ puzzle = NoRef
    /\ solution = NoRef
    /\ fillStack = <<>>
    /\ array = <<>>
    /\ shuffleI = 0
    /\ targetClues = 0
    /\ indices = <<>>
    /\ pos = 0
    /\ cluesRemaining = 0
    /\ backup = 0
    /\ workingPuzzle = NoRef
    /\ stack = <<>>
    /\ count = 0
    /\ result = NoRef
    /\ solveResult = NoRef
    /\ solutionCount = 0
    /\ first = NoRef
    /\ streams = <<>>
    /\ validated = NoRef
    /\ suspended = NoRef
    /\ alone = <<>>
    /\ phase = 0
    /\ disk = <<>>
    /\ argument = <<>>
    /\ puzzleString = <<>>
    /\ parsed = <<>>

\* a test counts the solutions of one grid of G with a limit of L
TestInit(G, L) ==
    /\ pc = "count_start"
    /\ TestSetup(G, L)

SolveInit == TestInit(TestGrids, {2})

\* the test solves the solution it got: solvePuzzle(solveResult.solution)
SolveAgain ==
    /\ pc = "solve_done"
    /\ input = "given"
    /\ solveResult.status = "solved"
    /\ input' = solveResult.solution
    /\ snapshot' = heap[solveResult.solution]
    /\ pc' = "solve_start"
    /\ UNCHANGED <<heap, puzzle, solution, result, workingPuzzle, stack, count,
                   limit, caller, solveResult, solutionCount, first, streams, call,
                   groupsGen, groupsFill, groupsShuffle, groupsRng, groupsPair,
                   groupsParse>>

SolveNext ==
    \/ CountStart
    \/ CountCall
    \/ CountLoop
    \/ TestCounted
    \/ TestSolvable
    \/ SolveStart
    \/ SolveCall
    \/ SolveLoop
    \/ SolveAgain

SolveSpec == SolveInit /\ [][SolveNext]_vars

(***************************************************************************)
(* countSolutions called with every limit from 1 to MaxLimit               *)
(***************************************************************************)
MaxLimit == 2

\* Two groups of four cells of EASY_SOLUTION, each on two rows, two columns
\* and two boxes and holding two digits crosswise: blanking a whole group
\* leaves two ways of filling it.
RectA == <<3, 4, 30, 31>>
RectB == <<16, 17, 61, 62>>

\* the cells blanked of a group: none, its upper row, or all four
BlankedOf(rect) == {{}, {rect[1], rect[2]}, {rect[1], rect[2], rect[3], rect[4]}}

RectGrids ==
    {[c \in Cells |-> IF c \in a \cup b THEN 0 ELSE EASY_SOLUTION[c]] :
        a \in BlankedOf(RectA), b \in BlankedOf(RectB)}

\* grids with so few blanks that all their completions can be tried
CountGrids == PoolGrids \cup RectGrids \cup FullGrids

CountInit == TestInit(CountGrids, 1..MaxLimit)

CountNext ==
    \/ CountStart
    \/ CountCall
    \/ CountLoop
    \/ TestCounted

CountSpec == CountInit /\ [][CountNext]_vars

(***************************************************************************)
(* Every public call run to its return: the calling thread runs a call     *)
(* until it returns, so a step that can be taken is taken (weak fairness). *)
(***************************************************************************)
TermCalls == {<<"easy", 12770>>, <<"hard", 12398>>}

TermGrids ==
    {UNSOLVABLE_PUZZLE, TWO_SOLUTIONS, ALREADY_SOLVED, createEmptyPuzzle}
    \cup RectGrids

TermInit ==
    \/ /\ pc = "gen_start"
       /\ call = 1
       /\ \E c \in TermCalls : /\ difficulty = c[1]
                               /\ seed = Num(c[2])
       /\ Idle
    \/ TestInit(TermGrids, {2})

\* the steps that draw from the generator
TermDraws ==
    \/ GenStart
    \/ ShuffleStep
    \/ GenValidate

\* the other steps
TermSteps ==
    \/ FillCall
    \/ FillShuffled
    \/ FillLoop
    \/ RemoveShuffled
    \/ RemoveIter
    \/ CountStart
    \/ CountCall
    \/ CountLoop
    \/ RemoveDecide
    \/ TestCounted
    \/ TestSolvable
    \/ SolveStart
    \/ SolveCall
    \/ SolveLoop

TermNext ==
    \/ TermDraws
    \/ TermSteps

\* a step that draws from the generator can be taken: the conditions of
\* GenStart, ShuffleStep and GenValidate, whose other conjuncts are assignments
DrawEnabled ==
    \/ pc = "gen_start"
    \/ pc \in ShufflePcs /\ shuffleI > 0
    \/ pc = "gen_validate"

\* Weak fairness of every step. For the steps that draw from the generator it
\* is written out, WF_vars(A) being []<>(~ENABLED <<A>>_vars) \/ []<><<A>>_vars.
TermFairness ==
    /\ WF_vars(TermSteps)
    /\ ([]<>(~DrawEnabled) \/ []<><<TermDraws>>_vars)

TermSpec == TermInit /\ [][TermNext]_vars /\ TermFairness

(***************************************************************************)
(* Two generatePuzzle calls: each alone, one after the other, interleaved  *)
(***************************************************************************)
\* the two calls generatePuzzle(difficulty, seed)
PairCalls == <<<<"easy", 12770>>, <<"medium", 12398>>>>

NoResult == [puzzle |-> NoGrid, solution |-> NoGrid]

\* the parameters and locals of a call generatePuzzle(c[1], c[2]) not yet started
FreshContext(id, c) ==
    [id |-> id,
     pc |-> "gen_start",
     difficulty |-> c[1],
     seed |-> Num(c[2]),
     state |-> Num(0),
     draws |-> 0,
     heap |-> EmptyHeap,
     puzzle |-> NoRef,
     solution |-> NoRef,
     fillStack |-> <<>>,
     array |-> <<>>,
     shuffleI |-> 0,
     targetClues |-> 0,
     indices |-> <<>>,
     pos |-> 0,
     cluesRemaining |-> 0,
     backup |-> 0,
     input |-> NoRef,
     workingPuzzle |-> NoRef,
     stack |-> <<>>,
     count |-> 0,
     limit |-> 0,
     caller |-> "test",
     result |-> NoRef,
     snapshot |-> NoGrid]

\* the parameters and locals of the running call
RunningContext(id) ==
    [id |-> id,
     pc |-> pc,
     difficulty |-> difficulty,
     seed |-> seed,
     state |-> state,
     draws |-> draws,
     heap |-> heap,
     puzzle |-> puzzle,
     solution |-> solution,
     fillStack |-> fillStack,
     array |-> array,
     shuffleI |-> shuffleI,
     targetClues |-> targetClues,
     indices |-> indices,
     pos |-> pos,
     cluesRemaining |-> cluesRemaining,
     backup |-> backup,
     input |-> input,
     workingPuzzle |-> workingPuzzle,
     stack |-> stack,
     count |-> count,
     limit |-> limit,
     caller |-> caller,
     result |-> result,
     snapshot |-> snapshot]

\* a new process calls generatePuzzle(c[1], c[2])
StartFresh(c) ==
    /\ pc' = "gen_start"
    /\ difficulty' = c[1]
    /\ seed' = Num(c[2])
    /\ state' = Num(0)
    /\ draws' = 0
    /\ heap' = EmptyHeap
    /\ puzzle' = NoRef
    /\ solution' = NoRef
    /\ fillStack' = <<>>
    /\ array' = <<>>
    /\ shuffleI' = 0
    /\ targetClues' = 0
    /\ indices' = <<>>
    /\ pos' = 0
    /\ cluesRemaining' = 0
    /\ backup' = 0
    /\ input' = NoRef
    /\ workingPuzzle' = NoRef
    /\ stack' = <<>>
    /\ count' = 0
    /\ limit' = 0
    /\ caller' = "test"
    /\ result' = NoRef
    /\ snapshot' = NoGrid

\* one generator shared by all calls: a resumed call finds the state the other
\* call left
rngShared(own, other) == other

\* `const rng = createSeededRandom(effectiveSeed)` is local to the call, and
\* `let state` to the generator: a resumed call finds its own state
rngOf(own, other) == own

\* the places at which the running call may be interrupted: in the middle of the
\* first shuffle, between generateSolvedGrid and removeClues, and in the middle
\* of the first search of countSolutions
SwitchPoint ==
    \/ pc = "fill_shuffle" /\ draws = 4
    \/ pc = "gen_validate"
    \/ pc = "count_loop" /\ caller = "remove" /\ cluesRemaining = 81 /\ count = 1

\* the first call returned alone; the second call follows in the same process
PairFollow ==
    /\ pc = "gen_done"
    /\ phase = "first_alone"
    /\ alone' = [alone EXCEPT !.first = Deref(result)]
    /\ phase' = "second_after"
    /\ difficulty' = PairCalls[2][1]
    /\ seed' = Num(PairCalls[2][2])
    /\ pc' = "gen_start"
    /\ UNCHANGED <<heap, puzzle, solution, result, targetClues, indices, pos,
                   cluesRemaining, backup, groupsFill, groupsShuffle, groupsRng,
                   groupsSearch, groupsTest, validated, suspended, groupsParse>>

\* the second call returned after the first; it is now made alone
PairAlone ==
    /\ pc = "gen_done"
    /\ phase = "second_after"
    /\ alone' = [alone EXCEPT !.after = Deref(result)]
    /\ phase' = "second_alone"
    /\ StartFresh(PairCalls[2])
    /\ UNCHANGED <<solveResult, solutionCount, first, streams, call, validated,
                   suspended, groupsParse>>

\* the second call returned alone; now the two calls are made side by side
PairTogether ==
    /\ pc = "gen_done"
    /\ phase = "second_alone"
    /\ alone' = [alone EXCEPT !.second = Deref(result)]
    /\ phase' = "interleaved"
    /\ StartFresh(PairCalls[1])
    /\ suspended' = FreshContext(2, PairCalls[2])
    /\ UNCHANGED <<solveResult, solutionCount, first, streams, call, validated,
                   groupsParse>>

\* the running call is interrupted, or has returned, and the other call runs
Switch ==
    /\ phase = "interleaved"
    /\ suspended.pc # "gen_done"
    /\ SwitchPoint \/ pc = "gen_done"
    /\ suspended' = RunningContext(3 - suspended.id)
    /\ pc' = suspended.pc
    /\ difficulty' = suspended.difficulty
    /\ seed' = suspended.seed
    /\ state' = rngOf(suspended.state, state)
    /\ draws' = suspended.draws
    /\ heap' = suspended.heap
    /\ puzzle' = suspended.puzzle
    /\ solution' = suspended.solution
    /\ fillStack' = suspended.fillStack
    /\ array' = suspended.array
    /\ shuffleI' = suspended.shuffleI
    /\ targetClues' = suspended.targetClues
    /\ indices' = suspended.indices
    /\ pos' = suspended.pos
    /\ cluesRemaining' = suspended.cluesRemaining
    /\ backup' = suspended.backup
    /\ input' = suspended.input
    /\ workingPuzzle' = suspended.workingPuzzle
    /\ stack' = suspended.stack
    /\ count' = suspended.count
    /\ limit' = suspended.limit
    /\ caller' = suspended.caller
    /\ result' = suspended.result
    /\ snapshot' = suspended.snapshot
    /\ UNCHANGED <<solveResult, solutionCount, first, streams, call, validated,
                   alone, phase, groupsParse>>

PairInit ==
    /\ pc = "gen_start"
    /\ call = 1
    /\ difficulty = PairCalls[1][1]
    /\ seed = Num(PairCalls[1][2])
    /\ state = Num(0)
    /\ draws = 0
    /\ heap = EmptyHeap
    /\ puzzle = NoRef
    /\ solution = NoRef
    /\ fillStack = <<>>
    /\ array = <<>>
    /\ shuffleI = 0
    /\ targetClues = 0
    /\ indices = <<>>
    /\ pos = 0
    /\ cluesRemaining = 0
    /\ backup = 0
    /\ input = NoRef
    /\ workingPuzzle = NoRef
    /\ stack = <<>>
    /\ count = 0
    /\ limit = 0
    /\ caller = "test"
    /\ result = NoRef
    /\ solveResult = NoRef
    /\ solutionCount = 0
    /\ snapshot = NoGrid
    /\ first = NoRef
    /\ streams = <<>>
    /\ validated = NoRef
    /\ suspended = FreshContext(2, PairCalls[2])
    /\ alone = [first |-> NoResult, after |-> NoResult, second |-> NoResult]
    /\ phase = "first_alone"
    /\ disk = <<>>
    /\ argument = <<>>
    /\ puzzleString = <<>>
    /\ parsed = <<>>

PairNext ==
    \/ GenStart
    \/ FillCall
    \/ ShuffleStep
    \/ FillShuffled
    \/ FillLoop
    \/ GenValidate
    \/ RemoveShuffled
    \/ RemoveIter
    \/ CountStart
    \/ CountCall
    \/ CountLoop
    \/ RemoveDecide
    \/ PairFollow
    \/ PairAlone
    \/ PairTogether
    \/ Switch

PairSpec == PairInit /\ [][PairNext]_vars

(***************************************************************************)
(* validatePuzzle called by its tests                                      *)
(***************************************************************************)
\* validatePuzzle([1, 2, 3])
THREE_CELLS == [c \in 0..2 |-> c + 1]

\* a grid of 82 cells
LONG_GRID == [c \in 0..81 |-> IF c \in Cells THEN EASY_SOLUTION[c] ELSE 0]

\* a valid full grid with one cell overwritten by another digit
OverwrittenGrids ==
    {[EASY_SOLUTION EXCEPT ![c] = d] : c \in Cells, d \in Digits \cup {0}}

ValidateGrids ==
    PoolGrids \cup OverwrittenGrids \cup FullGrids
              \cup {EASY_PUZZLE, MEDIUM_PUZZLE, INVALID_PUZZLE, UNSOLVABLE_PUZZLE,
                    TWO_SOLUTIONS, SHORT_GRID, LONG_GRID, THREE_CELLS, createEmptyPuzzle}

ValidateInit ==
    /\ pc = "validate_start"
    /\ TestSetup(ValidateGrids, {0})

\* const result = validatePuzzle(puzzle)
Validate ==
    /\ pc = "validate_start"
    /\ validated' = validatePuzzle(heap[input])
    /\ pc' = "validate_done"
    /\ UNCHANGED <<heap, puzzle, solution, result, suspended, alone, phase, groupsGen,
                   groupsFill, groupsShuffle, groupsRng, groupsSearch, groupsTest,
                   groupsParse>>

ValidateNext ==
    \/ Validate

ValidateSpec == ValidateInit /\ [][ValidateNext]_vars

(***************************************************************************)
(* Completions of a grid, decided without the search                       *)
(***************************************************************************)
Blanks(g) == {c \in DOMAIN g : g[c] = 0}

Groups ==
    {{r * 9 + k : k \in 0..8} : r \in 0..8}
    \cup {{k * 9 + col : k \in 0..8} : col \in 0..8}
    \cup {{(3 * (b \div 3) + (k \div 3)) * 9 + 3 * (b % 3) + (k % 3) : k \in 0..8} : b \in 0..8}

\* every row, column and box of the full grid holds the nine digits
satisfiesRules(full) == \A grp \in Groups : {full[c] : c \in grp} = Digits

\* s is a rule-satisfying full grid that keeps every given digit of g
completes(s, g) ==
    /\ satisfiesRules(s)
    /\ \A c \in Cells : g[c] # 0 => s[c] = g[c]

KnownSolutions == {EASY_SOLUTION, MEDIUM_SOLUTION}

\* grids with so few blanks that every way of filling them can be tried
fewBlanks(g) == Cardinality(Blanks(g)) <= Len(PoolCells)

someFilling(g) ==
    \E f \in [Blanks(g) -> Digits] :
        satisfiesRules([c \in Cells |-> IF g[c] = 0 THEN f[c] ELSE g[c]])

\* a blank cell whose row, column and box together already hold all nine digits
deadCell(g) ==
    \E c \in Blanks(g) :
        \A d \in Digits : \E grp \in Groups : c \in grp /\ \E b \in grp : g[b] = d

hasCompletion(g) ==
    IF fewBlanks(g) THEN someFilling(g) ELSE \E s \in KnownSolutions : completes(s, g)

noCompletion(g) ==
    IF fewBlanks(g) THEN ~someFilling(g) ELSE deadCell(g)

\* the digits some blank cell of g can still take
candidateDigits(g) ==
    {d \in Digits : \E c \in Blanks(g) :
        \A grp \in Groups : c \in grp => \A b \in grp : g[b] # d}

\* the number of rule-satisfying completions of g
numCompletions(g) ==
    Cardinality({f \in [Blanks(g) -> candidateDigits(g)] :
        satisfiesRules([c \in Cells |-> IF g[c] = 0 THEN f[c] ELSE g[c]])})

(***************************************************************************)
(* Properties of solvePuzzle and countSolutions                            *)
(***************************************************************************)
\* C7: for a rule-valid grid with at least one completion solvePuzzle returns
\* solved, and its solution has no blank, passes validatePuzzle and keeps every
\* non-zero cell of the grid.
C7_SolvesSolvable ==
    (pc = "solve_done" /\ validatePuzzle(snapshot).isValid /\ hasCompletion(snapshot)) =>
        /\ solveResult.status = "solved"
        /\ LET sol == heap[solveResult.solution]
           IN  /\ noBlank(sol)
               /\ validatePuzzle(sol).isValid
               /\ \A c \in Cells : snapshot[c] # 0 => sol[c] = snapshot[c]

\* EASY_PUZZLE has been solved to EASY_SOLUTION
C7_Witness ==
    /\ pc = "solve_done"
    /\ snapshot = EASY_PUZZLE
    /\ solveResult.status = "solved"
    /\ heap[solveResult.solution] = EASY_SOLUTION

\* C8: for a rule-valid 81-cell grid solvePuzzle returns unsolvable exactly
\* when the grid has no completion satisfying all row, column and box rules.
C8_UnsolvableIffNoCompletion ==
    (pc = "solve_done" /\ validatePuzzle(snapshot).isValid) =>
        /\ (solveResult.status = "unsolvable") <=> noCompletion(snapshot)
        /\ (solveResult.status # "unsolvable") <=> hasCompletion(snapshot)

\* a rule-valid grid none of whose fillings satisfies the rules was reported
\* unsolvable after the search backtracked
C8_Witness ==
    /\ pc = "solve_done"
    /\ validatePuzzle(snapshot).isValid
    /\ fewBlanks(snapshot)
    /\ Blanks(snapshot) # {}
    /\ ~someFilling(snapshot)
    /\ solveResult.status = "unsolvable"

\* C9: solvePuzzle returns exactly one of three outcomes with matching payload:
\* invalid, carrying exactly validatePuzzle's errors and nothing else, exactly
\* when the grid is not valid, and then without any step of the search;
\* solved, carrying only a solution; or unsolvable, carrying nothing.
C9_ThreeOutcomes ==
    /\ [](pc = "solve_done" =>
            LET validation == validatePuzzle(snapshot)
            IN  /\ solveResult.status \in {"invalid", "solved", "unsolvable"}
                /\ (solveResult.status = "invalid") <=> ~validation.isValid
                /\ solveResult.status = "invalid" =>
                     /\ DOMAIN solveResult = {"status", "errors"}
                     /\ solveResult.errors = validation.errors
                /\ solveResult.status = "solved" =>
                     DOMAIN solveResult = {"status", "solution"}
                /\ solveResult.status = "unsolvable" =>
                     DOMAIN solveResult = {"status"})
    /\ [][(pc = "solve_start" /\ ~validatePuzzle(heap[input]).isValid)
            => (pc' = "solve_done" /\ heap' = heap /\ stack' = stack)]_vars

\* INVALID_PUZZLE was reported invalid with its two violations
C9_Witness ==
    /\ pc = "solve_done"
    /\ snapshot = INVALID_PUZZLE
    /\ solveResult.status = "invalid"
    /\ Len(solveResult.errors) = 2

\* C10: when countSolutions or solvePuzzle has returned, every cell of the
\* grid the caller passed has the value it had before the call.
C10_InputUnchanged ==
    pc \in {"count_return", "test_counted", "solve_done"} => heap[input] = snapshot

\* a grid with blanks was solved in the clone, and the caller's grid still has
\* its blanks
C10_Witness ==
    /\ pc = "solve_done"
    /\ solveResult.status = "solved"
    /\ heap[solveResult.solution] # snapshot
    /\ heap[input] = snapshot
    /\ Blanks(heap[input]) # {}

\* C11: for a complete rule-valid grid solvePuzzle returns solved with a
\* solution equal to the grid; so solving the solution of an earlier call
\* returns the same grid again.
C11_SolvedGridsAreFixed ==
    (pc = "solve_done" /\ validatePuzzle(snapshot).isValid /\ noBlank(snapshot)) =>
        /\ solveResult.status = "solved"
        /\ heap[solveResult.solution] = snapshot

\* the solution of a puzzle with blanks was solved again and came back unchanged
C11_Witness ==
    /\ pc = "solve_done"
    /\ input = "working"
    /\ Blanks(heap["given"]) # {}
    /\ noBlank(snapshot)
    /\ solveResult.status = "solved"
    /\ solveResult.solution = "resolved"
    /\ heap["resolved"] = snapshot

\* C12: for a rule-valid grid and a limit of at least 1 countSolutions returns
\* the smaller of the limit and the number of rule-satisfying completions;
\* with limit 2 it returns 1 exactly for a unique solution, and it never
\* returns more than the limit.
C12_CountIsMinOfLimitAndCompletions ==
    (pc = "test_counted" /\ validatePuzzle(snapshot).isValid /\ limit >= 1) =>
        LET n == numCompletions(snapshot)
        IN  /\ solutionCount = Min({limit, n})
            /\ solutionCount <= limit
            /\ limit = 2 => (solutionCount = 1 <=> n = 1)

\* a grid with four completions was counted with a limit below four and the
\* limit came back
C12_Witness ==
    /\ pc = "test_counted"
    /\ validatePuzzle(snapshot).isValid
    /\ numCompletions(snapshot) = 4
    /\ limit = MaxLimit
    /\ solutionCount = limit

\* some row, column or box of g holds a non-zero digit twice
hasDuplicate(g) ==
    \E grp \in Groups : \E a, b \in grp : a # b /\ g[a] # 0 /\ g[a] = g[b]

Rules(errors) == [k \in 1..Len(errors) |-> errors[k].rule]

\* C14: validatePuzzle returns a size violation exactly when the grid does not
\* have 81 cells; then the result is invalid and the size violation is the
\* only entry of the list.
C14_SizeViolationIffNot81 ==
    pc = "validate_done" =>
        /\ ("size" \in {validated.errors[k].rule : k \in 1..Len(validated.errors)})
              <=> (Length(snapshot) # 81)
        /\ Length(snapshot) # 81 =>
              /\ ~validated.isValid
              /\ Rules(validated.errors) = <<"size">>

\* a grid of more than 81 cells was rejected with the size violation alone
C14_Witness ==
    /\ pc = "validate_done"
    /\ Length(snapshot) > 81
    /\ ~validated.isValid
    /\ Rules(validated.errors) = <<"size">>

\* C15: for a grid of 81 cells validatePuzzle returns isValid = true exactly
\* when no row, column or box holds the same non-zero digit twice (blank cells
\* never count), and isValid is true exactly when the list of violations is
\* empty.
C15_ValidIffNoDuplicate ==
    (pc = "validate_done" /\ Length(snapshot) = 81) =>
        /\ validated.isValid <=> ~hasDuplicate(snapshot)
        /\ validated.isValid <=> (validated.errors = <<>>)

\* a grid with several blanks in one row was found valid
C15_Witness ==
    /\ pc = "validate_done"
    /\ Length(snapshot) = 81
    /\ \E a, b \in 0..8 : a # b /\ snapshot[a] = 0 /\ snapshot[b] = 0
    /\ validated.isValid
    /\ validated.errors = <<>>

\* the cells of row, column or box number i
GroupOf(rule, i) ==
    IF rule = "row" THEN {i * 9 + k : k \in 0..8}
    ELSE IF rule = "column" THEN {k * 9 + i : k \in 0..8}
    ELSE {(3 * (i \div 3) + (k \div 3)) * 9 + 3 * (i % 3) + (k % 3) : k \in 0..8}

\* the non-zero digits a group of g holds more than once
repeatedIn(g, rule, i) ==
    {g[a] : a \in {c \in GroupOf(rule, i) :
                     g[c] # 0 /\ \E b \in GroupOf(rule, i) : b # c /\ g[b] = g[c]}}

\* position of a violation in the order rows 0-8, columns 0-8, boxes 0-8
rank(e) ==
    (IF e.rule = "row" THEN 0 ELSE IF e.rule = "column" THEN 9 ELSE 18) + e.index

\* C16: for a grid of 81 cells validatePuzzle emits exactly one violation for
\* each row, column or box that holds a non-zero digit twice and none for any
\* other group, at most 27 in all, ordered rows 0-8, columns 0-8, boxes 0-8;
\* so a valid full grid with one cell overwritten by a digit d already in its
\* row yields exactly one row violation, at that row's index with digit d.
C16_OneViolationPerGroup ==
    (pc = "validate_done" /\ Length(snapshot) = 81) =>
        LET e == validated.errors
        IN  /\ \A rule \in {"row", "column", "box"}, i \in 0..8 :
                  LET own == {k \in 1..Len(e) : e[k].rule = rule /\ e[k].index = i}
                  IN  /\ Cardinality(own) = IF repeatedIn(snapshot, rule, i) # {} THEN 1 ELSE 0
                      /\ \A k \in own : e[k].digit \in repeatedIn(snapshot, rule, i)
            /\ \A k \in 1..Len(e) : e[k].rule \in {"row", "column", "box"} /\ e[k].index \in 0..8
            /\ Len(e) <= 27
            /\ \A j, k \in 1..Len(e) : j < k => rank(e[j]) < rank(e[k])
            /\ \A s \in FullGrids, c \in Cells :
                  (snapshot[c] # s[c] /\ snapshot[c] # 0 /\ snapshot = [s EXCEPT ![c] = snapshot[c]]) =>
                      LET rows == {k \in 1..Len(e) : e[k].rule = "row"}
                      IN  /\ Cardinality(rows) = 1
                          /\ \A k \in rows : e[k].index = c \div 9 /\ e[k].digit = snapshot[c]

\* the valid full grid with the second cell of row 0 overwritten by the 5 of
\* its first cell: one violation for row 0, one for column 1, one for box 0
C16_Witness ==
    /\ pc = "validate_done"
    /\ snapshot = [EASY_SOLUTION EXCEPT ![1] = 5]
    /\ Rules(validated.errors) = <<"row", "column", "box">>
    /\ validated.errors[1].index = 0
    /\ validated.errors[1].digit = 5

(***************************************************************************)
(* Termination                                                             *)
(***************************************************************************)
\* C17: every public call terminates: a started search of solvePuzzle and of
\* countSolutions eventually returns, and a started generatePuzzle eventually
\* returns, its grid construction and its clue-removal walk both finishing.
C17_EveryCallReturns ==
    /\ (pc = "solve_start") ~> (pc = "solve_done")
    /\ (pc = "count_start") ~> (pc = "count_return")
    /\ (pc = "gen_start") ~> (pc = "gen_validate")
    /\ (pc = "gen_validate") ~> (pc = "gen_done")

\* a search that tried every digit of every blank cell has returned without a
\* solution
C17_Witness ==
    /\ pc = "solve_done"
    /\ snapshot = UNSOLVABLE_PUZZLE
    /\ solveResult.status = "unsolvable"
    /\ stack = <<>>

(***************************************************************************)
(* Independence of generatePuzzle calls                                    *)
(***************************************************************************)
\* the grids returned by the call that is not running
SuspendedResult ==
    [puzzle |-> suspended.heap[suspended.result.puzzle],
     solution |-> suspended.heap[suspended.result.solution]]

\* the result of call number id made alone
AloneResult(id) == IF id = 1 THEN alone.first ELSE alone.second

\* C18: two generatePuzzle calls do not influence each other: made one after
\* the other or interleaved, each returns what the same call returns alone.
C18_CallsIndependent ==
    /\ phase = "interleaved" => alone.after = alone.second
    /\ (phase = "interleaved" /\ pc = "gen_done") =>
          Deref(result) = AloneResult(3 - suspended.id)
    /\ (phase = "interleaved" /\ suspended.pc = "gen_done") =>
          SuspendedResult = AloneResult(suspended.id)

\* the second call ran from start to return while the first call was
\* interrupted inside its first search of countSolutions, and returned what it
\* returns alone
C18_Witness ==
    /\ phase = "interleaved"
    /\ pc = "gen_done"
    /\ suspended.id = 1
    /\ suspended.pc = "count_loop"
    /\ Deref(result) = alone.second
    /\ alone.second # alone.first

(***************************************************************************)
(* The three generators generatePuzzle creates for one seed                *)
(***************************************************************************)
MaxDraws == 2           \* values drawn from each of the three generators

\* Integer seeds, as numbers in base 2^16: small ones, the ones around the
\* 32-bit wrap of seed * 3, and the ones around 2^53 / 3 and above, where
\* seed * 3 is no longer exact.
SeedInputs ==
    {Num(0), Num(1), Num(2), Num(42), Num(12345), Num(12770),
     Num(1431655764), Num(1431655765), Num(1431655766), Num(2147483647),
     <<0, 1, 0, 0>>,                    \* 2^32
     <<10, 43690, 43690, 43690>>,       \* 3002399751580330: seed * 3 = 2^53 - 2
     <<10, 43690, 43690, 43691>>,       \* 3002399751580331: seed * 3 > 2^53
     <<16, 0, 0, 0>>,                   \* 2^52
     <<31, 65535, 65535, 65535>>,       \* 2^53 - 1
     <<32, 0, 0, 0>>}                   \* 2^53

SeedInit ==
    /\ pc = "seed_start"
    /\ seed \in SeedInputs
    /\ call = 1
    /\ difficulty = "easy"
    /\ Idle

\* generatePuzzle(d, seed) up to createSeededRandom(effectiveSeed), for the
\* next of the three difficulties
SeedDerive ==
    /\ pc = "seed_start"
    /\ Len(streams) < Len(DifficultyNames)
    /\ LET d == DifficultyNames[Len(streams) + 1]
           e == effectiveSeed(d, seed)
       IN  streams' = Append(streams, [difficulty |-> d,
                                       effectiveSeed |-> e,
                                       start |-> createSeededRandom(e),
                                       state |-> createSeededRandom(e),
                                       values |-> <<>>])
    /\ UNCHANGED <<pc, call, heap, puzzle, solution, result, solveResult,
                   solutionCount, snapshot, first, groupsGen, groupsFill,
                   groupsShuffle, groupsRng, groupsSearch, groupsPair,
                   groupsParse>>

\* rng.next() on one of the three generators
SeedDraw ==
    /\ pc = "seed_start"
    /\ Len(streams) = Len(DifficultyNames)
    /\ \E k \in 1..Len(streams) :
         /\ Len(streams[k].values) < MaxDraws
         /\ LET d == next(streams[k].state)
            IN  streams' = [streams EXCEPT ![k].state = d.state,
                                           ![k].values = Append(@, d.value)]
    /\ UNCHANGED <<pc, call, heap, puzzle, solution, result, solveResult,
                   solutionCount, snapshot, first, groupsGen, groupsFill,
                   groupsShuffle, groupsRng, groupsSearch, groupsPair,
                   groupsParse>>

SeedNext ==
    \/ SeedDerive
    \/ SeedDraw

SeedSpec == SeedInit /\ [][SeedNext]_vars

(***************************************************************************)
(* Two generators created with the same seed, used side by side            *)
(***************************************************************************)
RngSeeds ==
    {Num(0), Num(42), Num(43), Num(999), Num(12345), Num(2147483647),
     <<0, 0, 65535, 65535>>,            \* 2^32 - 1
     <<0, 1, 0, 42>>}                   \* 2^32 + 42

\* const arr = [1, 2, 3, 4, 5]
ShuffleArray == [k \in 0..4 |-> k + 1]

\* one `let state` for all generators: every generator reads and writes the
\* state of the first
slotShared(k) == 1

\* each createSeededRandom call has its own `let state`
slot(k) == k

RngInit ==
    /\ pc = "rng_start"
    /\ seed \in RngSeeds
    /\ call = 1
    /\ difficulty = "easy"
    /\ Idle

\* const rng1 = createSeededRandom(seed); const rng2 = createSeededRandom(seed)
RngCreate ==
    /\ pc = "rng_start"
    /\ streams = <<>>
    /\ LET rng == [state |-> createSeededRandom(seed), values |-> <<>>,
                    array |-> <<>>, i |-> 0, shuffled |-> FALSE]
       IN  streams' = <<rng, rng>>
    /\ UNCHANGED <<pc, call, heap, puzzle, solution, result, solveResult,
                   solutionCount, snapshot, first, groupsGen, groupsFill,
                   groupsShuffle, groupsRng, groupsSearch, groupsPair,
                   groupsParse>>

\* rng.next() on generator k
RngNext(k) ==
    /\ pc = "rng_start"
    /\ k \in 1..Len(streams)
    /\ streams[k].array = <<>>
    /\ Len(streams[k].values) < MaxDraws
    /\ LET d == next(streams[slot(k)].state)
       IN  streams' = [[streams EXCEPT ![slot(k)].state = d.state]
                          EXCEPT ![k].values = Append(@, d.value)]
    /\ UNCHANGED <<pc, call, heap, puzzle, solution, result, solveResult,
                   solutionCount, snapshot, first, groupsGen, groupsFill,
                   groupsShuffle, groupsRng, groupsSearch, groupsPair,
                   groupsParse>>

\* rng.shuffle(arr) on generator k is entered
RngShuffle(k) ==
    /\ pc = "rng_start"
    /\ k \in 1..Len(streams)
    /\ streams[k].array = <<>>
    /\ streams' = [streams EXCEPT ![k].array = ShuffleArray,
                                   ![k].i = Length(ShuffleArray) - 1]
    /\ UNCHANGED <<pc, call, heap, puzzle, solution, result, solveResult,
                   solutionCount, snapshot, first, groupsGen, groupsFill,
                   groupsShuffle, groupsRng, groupsSearch, groupsPair,
                   groupsParse>>

\* one iteration of the loop of shuffle on generator k, or its return
RngShuffleStep(k) ==
    /\ pc = "rng_start"
    /\ k \in 1..Len(streams)
    /\ streams[k].array # <<>>
    /\ ~streams[k].shuffled
    /\ IF streams[k].i > 0
       THEN LET r == shuffleIteration(streams[k].array, streams[slot(k)].state,
                                      streams[k].i)
            IN  streams' = [[streams EXCEPT ![slot(k)].state = r.state]
                               EXCEPT ![k].array = r.array,
                                      ![k].i = @ - 1]
       ELSE streams' = [streams EXCEPT ![k].shuffled = TRUE]
    /\ UNCHANGED <<pc, call, heap, puzzle, solution, result, solveResult,
                   solutionCount, snapshot, first, groupsGen, groupsFill,
                   groupsShuffle, groupsRng, groupsSearch, groupsPair,
                   groupsParse>>

RngNext1 == RngNext(1)
RngNext2 == RngNext(2)
RngShuffle1 == RngShuffle(1)
RngShuffle2 == RngShuffle(2)
RngShuffleStep1 == RngShuffleStep(1)
RngShuffleStep2 == RngShuffleStep(2)

RngStep ==
    \/ RngCreate
    \/ RngNext1
    \/ RngNext2
    \/ RngShuffle1
    \/ RngShuffle2
    \/ RngShuffleStep1
    \/ RngShuffleStep2

RngSpec == RngInit /\ [][RngStep]_vars

\* C6 as claimed: for one seed the three difficulties start from three pairwise
\* different generator states, the effective seeds reduced to 32 bits.
C6_DistinctStartStates ==
    \A a, b \in 1..Len(streams) :
        a # b => ToUint32(streams[a].start) # ToUint32(streams[b].start)

(***************************************************************************)
(* Properties of the seeded generator                                      *)
(***************************************************************************)
\* generator k has returned from shuffle
hasShuffled(k) == streams[k].shuffled

\* C19: two generators created with the same seed return the same value at
\* every draw of next(), and their shuffles of equal arrays, made after equally
\* many draws, give equal arrays.
C19_SameSeedSameSequence ==
    \A a, b \in 1..Len(streams) :
        /\ \A n \in 1..Len(streams[a].values) :
              n <= Len(streams[b].values) => streams[a].values[n] = streams[b].values[n]
        /\ (hasShuffled(a) /\ hasShuffled(b)
               /\ Len(streams[a].values) = Len(streams[b].values)) =>
              streams[a].array = streams[b].array

\* both generators have drawn MaxDraws values, in turns, and then shuffled
\* [1, 2, 3, 4, 5] into the same order, which is not the order they started in
C19_Witness ==
    /\ Len(streams) = 2
    /\ Len(streams[1].values) = MaxDraws
    /\ streams[1].values = streams[2].values
    /\ hasShuffled(1)
    /\ hasShuffled(2)
    /\ streams[1].array = streams[2].array
    /\ streams[1].array # ShuffleArray

\* C20 as claimed: the state of a generator is a 32-bit unsigned integer after
\* creation and after any number of draws, 0 <= state < 2^32.
C20_StateBelowTwoTo32 ==
    \A k \in 1..Len(streams) : streams[k].state[1] = 0 /\ streams[k].state[2] = 0


(***************************************************************************)
(* nextInt on one generator, for several ranges                            *)
(***************************************************************************)
\* <<min, max>> of the calls: the range of the generator test, the ranges of
\* shuffle (0..i), the clue ranges of generatePuzzle, single values, ranges
\* below zero and a wide range
IntRanges ==
    {<<5, 10>>, <<0, 0>>, <<0, 1>>, <<0, 8>>, <<0, 80>>, <<36, 45>>,
     <<7, 7>>, <<-3, 3>>, <<-10, -10>>, <<0, 32766>>}

IntInit ==
    /\ pc = "int_start"
    /\ seed \in RngSeeds
    /\ call = 1
    /\ difficulty = "easy"
    /\ Idle

\* const rng = createSeededRandom(seed)
IntCreate ==
    /\ pc = "int_start"
    /\ streams = <<>>
    /\ streams' = <<[state |-> createSeededRandom(seed), values |-> <<>>]>>
    /\ UNCHANGED <<pc, call, heap, puzzle, solution, result, solveResult,
                   solutionCount, snapshot, first, groupsGen, groupsFill,
                   groupsShuffle, groupsRng, groupsSearch, groupsPair,
                   groupsParse>>

\* const val = rng.nextInt(min, max)
IntDraw ==
    /\ pc = "int_start"
    /\ streams # <<>>
    /\ Len(streams[1].values) < MaxDraws
    /\ \E r \in IntRanges :
         LET d == nextInt(streams[1].state, r[1], r[2])
         IN  streams' = [streams EXCEPT
                           ![1].state = d.state,
                           ![1].values = Append(@, [min |-> r[1], max |-> r[2],
                                                    value |-> d.value])]
    /\ UNCHANGED <<pc, call, heap, puzzle, solution, result, solveResult,
                   solutionCount, snapshot, first, groupsGen, groupsFill,
                   groupsShuffle, groupsRng, groupsSearch, groupsPair,
                   groupsParse>>

IntNext ==
    \/ IntCreate
    \/ IntDraw

IntSpec == IntInit /\ [][IntNext]_vars

\* C21: nextInt(min, max) returns an integer r with min <= r <= max, for every
\* range with min <= max and every state of the generator.
C21_NextIntWithinRange ==
    pc = "int_start" =>
        \A k \in 1..Len(streams) : \A n \in 1..Len(streams[k].values) :
            LET v == streams[k].values[n]
            IN  /\ v.value \in Int
                /\ v.min <= v.value
                /\ v.value <= v.max

\* both ends of a range have been returned, and a single-value range its value
C21_Witness ==
    /\ pc = "int_start"
    /\ streams # <<>>
    /\ Len(streams[1].values) = MaxDraws
    /\ \E n \in 1..MaxDraws :
         LET v == streams[1].values[n]
         IN  v.min < v.max /\ v.value = v.max
    /\ \E n \in 1..MaxDraws :
         LET v == streams[1].values[n]
         IN  v.min < v.max /\ v.value = v.min


(***************************************************************************)
(* shuffle on arrays of every length from 0                                *)
(***************************************************************************)
MaxLength == 9          \* longest array shuffled: the digits of fillGrid

\* the arrays [1, ..., n], and one with equal elements
ShuffleArrays ==
    {[k \in 0..(n - 1) |-> k + 1] : n \in 0..MaxLength}
        \cup {[k \in 0..3 |-> IF k = 2 THEN 3 ELSE 7]}

ShuffleInit ==
    /\ pc = "shuffle_start"
    /\ seed \in RngSeeds
    /\ call = 1
    /\ difficulty = "easy"
    /\ Idle

\* const rng = createSeededRandom(seed); const arr = [...]; rng.shuffle(arr)
\* up to the first test of the loop: the parameter `array` is the caller's
\* array object, named "arr" here
ShuffleCall ==
    /\ pc = "shuffle_start"
    /\ streams = <<>>
    /\ \E a \in ShuffleArrays :
         streams' = <<[start    |-> createSeededRandom(seed),
                       state    |-> createSeededRandom(seed),
                       objects  |-> [arr |-> a],
                       original |-> a,
                       array    |-> "arr",
                       i        |-> Length(a) - 1,
                       swaps    |-> <<>>,
                       returned |-> NoRef]>>
    /\ UNCHANGED <<pc, call, heap, puzzle, solution, result, solveResult,
                   solutionCount, snapshot, first, groupsGen, groupsFill,
                   groupsShuffle, groupsRng, groupsSearch, groupsPair,
                   groupsParse>>

\* one iteration of the loop of shuffle; swaps records the loop variable, the
\* array before and after the iteration and the state it left
ShuffleIterate ==
    /\ pc = "shuffle_start"
    /\ streams # <<>>
    /\ streams[1].returned = NoRef
    /\ streams[1].i > 0
    /\ LET rng == streams[1]
           r   == shuffleIteration(rng.objects[rng.array], rng.state, rng.i)
       IN  streams' = [streams EXCEPT
                         ![1].state = r.state,
                         ![1].objects[rng.array] = r.array,
                         ![1].i = @ - 1,
                         ![1].swaps = Append(@, [i      |-> rng.i,
                                                 before |-> rng.objects[rng.array],
                                                 after  |-> r.array,
                                                 state  |-> r.state])]
    /\ UNCHANGED <<pc, call, heap, puzzle, solution, result, solveResult,
                   solutionCount, snapshot, first, groupsGen, groupsFill,
                   groupsShuffle, groupsRng, groupsSearch, groupsPair,
                   groupsParse>>

\* return array
ShuffleReturn ==
    /\ pc = "shuffle_start"
    /\ streams # <<>>
    /\ streams[1].returned = NoRef
    /\ ~(streams[1].i > 0)
    /\ streams' = [streams EXCEPT ![1].returned = streams[1].array]
    /\ UNCHANGED <<pc, call, heap, puzzle, solution, result, solveResult,
                   solutionCount, snapshot, first, groupsGen, groupsFill,
                   groupsShuffle, groupsRng, groupsSearch, groupsPair,
                   groupsParse>>

ShuffleNext ==
    \/ ShuffleCall
    \/ ShuffleIterate
    \/ ShuffleReturn

ShuffleSpec == ShuffleInit /\ [][ShuffleNext]_vars


\* the state of a generator after k calls of next()
RECURSIVE drawsFrom(_, _)
drawsFrom(st, k) == IF k = 0 THEN st ELSE next(drawsFrom(st, k - 1)).state

occurrences(a, v) == Cardinality({k \in DOMAIN a : a[k] = v})

isPermutation(a, b) ==
    /\ DOMAIN a = DOMAIN b
    /\ \A k \in DOMAIN b : occurrences(a, b[k]) = occurrences(b, b[k])

\* C22: shuffle on an array of length n draws exactly max(n - 1, 0) times, once
\* for each i from n - 1 down to 1, and swaps position i with a position j of
\* 0..i; it returns the array object it was given, holding a permutation of
\* its elements; an array of length 0 or 1 comes back unchanged with no draw.
C22_ShuffleDrawsAndPermutes ==
    (pc = "shuffle_start" /\ streams # <<>>) =>
        LET rng == streams[1]
            n   == Length(rng.original)
            now == rng.objects[rng.array]
        IN  /\ \A k \in 1..Len(rng.swaps) :
                 /\ rng.swaps[k].i = n - k
                 /\ rng.swaps[k].i >= 1
                 /\ \E j \in 0..rng.swaps[k].i :
                      rng.swaps[k].after = Swap(rng.swaps[k].before, rng.swaps[k].i, j)
                 /\ rng.swaps[k].state = drawsFrom(rng.start, k)
            /\ rng.state = drawsFrom(rng.start, Len(rng.swaps))
            /\ isPermutation(now, rng.original)
            /\ rng.returned # NoRef =>
                 /\ rng.returned = "arr"
                 /\ Len(rng.swaps) = (IF n >= 1 THEN n - 1 ELSE 0)
                 /\ n <= 1 => (now = rng.original /\ rng.state = rng.start)

\* a shuffle of nine elements has returned them in another order, and the
\* generator has moved
C22_Witness ==
    /\ pc = "shuffle_start"
    /\ streams # <<>>
    /\ streams[1].returned = "arr"
    /\ Length(streams[1].original) = 9
    /\ Len(streams[1].swaps) = 8
    /\ streams[1].objects.arr # streams[1].original
    /\ streams[1].state # streams[1].start


(***************************************************************************)
(* parsePuzzleInput.ts.  A string is a sequence of characters; the file    *)
(* system is the function `disk` from the paths that exist to their files. *)
(***************************************************************************)
WhiteSpace == {" ", "\n", "\t"}
AllowedChars == {"0", "1", "2", "3", "4", "5", "6", "7", "8", "9", "."}

\* the characters parseInt(char, 10) reads as 0..9
DigitChars == [d \in 0..9 |-> <<"0", "1", "2", "3", "4", "5", "6", "7", "8", "9">>[d + 1]]

parseInt(char) == CHOOSE d \in 0..9 : DigitChars[d] = char

Max(S) == CHOOSE x \in S : \A y \in S : y <= x

\* raw.trim()
trim(raw) ==
    LET kept == {k \in 1..Len(raw) : raw[k] \notin WhiteSpace}
    IN  IF kept = {} THEN <<>> ELSE SubSeq(raw, Min(kept), Max(kept))

\* throw new PuzzleParseError(code, message); the message is the template's
\* literal parts and the values put between them
Throw(code, message) ==
    [threw |-> TRUE, code |-> code, message |-> message, value |-> <<>>]

Return(value) ==
    [threw |-> FALSE, code |-> "", message |-> <<>>, value |-> value]

\* normalized.split('').find((c) => !/[0-9.]/.test(c))
invalidChar(normalized) ==
    normalized[Min({k \in 1..Len(normalized) : normalized[k] \notin AllowedChars})]

\* normalized.split('').map(...): the Puzzle, indexed from 0
toPuzzle(normalized) ==
    [c \in 0..(Len(normalized) - 1) |->
        IF normalized[c + 1] = "." \/ normalized[c + 1] = "0"
        THEN 0
        ELSE parseInt(normalized[c + 1])]

\* parsePuzzleString with the characters validated before the length
parsePuzzleStringCharsFirst(raw) ==
    LET normalized == trim(raw)
    IN  IF \E k \in 1..Len(normalized) : normalized[k] \notin AllowedChars
        THEN Throw("INVALID_CHARACTERS",
                   <<"Invalid character in puzzle: '", invalidChar(normalized),
                     "'. Only digits 0-9 and '.' are allowed.">>)
        ELSE IF Len(normalized) # 81
        THEN Throw("INVALID_LENGTH",
                   <<"Invalid puzzle length: expected 81 characters, got ",
                     Len(normalized)>>)
        ELSE Return(toPuzzle(normalized))

parsePuzzleString(raw) ==
    LET normalized == trim(raw)
    IN  IF Len(normalized) # 81
        THEN Throw("INVALID_LENGTH",
                   <<"Invalid puzzle length: expected 81 characters, got ",
                     Len(normalized)>>)
        ELSE IF ~(\A k \in 1..Len(normalized) : normalized[k] \in AllowedChars)
        THEN Throw("INVALID_CHARACTERS",
                   <<"Invalid character in puzzle: '", invalidChar(normalized),
                     "'. Only digits 0-9 and '.' are allowed.">>)
        ELSE Return(toPuzzle(normalized))

existsSync(path) == path \in DOMAIN disk

\* readPuzzleFile: the contents, or the error thrown
readPuzzleFile(filePath) ==
    IF ~existsSync(filePath)
    THEN Throw("FILE_NOT_FOUND", <<"File not found: ", filePath>>)
    ELSE IF disk[filePath].readable
    THEN Return(disk[filePath].contents)
    ELSE Throw("FILE_READ_ERROR", <<"Failed to read file: ", disk[filePath].error>>)

Repeat(c, n) == [k \in 1..n |-> c]

VALID_PUZZLE_STRING ==
    <<"5", "3", "0", "0", "7", "0", "0", "0", "0", "6", "0", "0", "1", "9",
      "5", "0", "0", "0", "0", "9", "8", "0", "0", "0", "0", "6", "0", "8",
      "0", "0", "0", "6", "0", "0", "0", "3", "4", "0", "0", "8", "0", "3",
      "0", "0", "1", "7", "0", "0", "0", "2", "0", "0", "0", "6", "0", "6",
      "0", "0", "0", "0", "2", "8", "0", "0", "0", "0", "4", "1", "9", "0",
      "0", "5", "0", "0", "0", "0", "8", "0", "0", "7", "9">>

\* the files of testdata the parser tests read, and the directory itself,
\* which exists and cannot be read as a file
VALID_EASY_SDK ==
    <<"t", "e", "s", "t", "d", "a", "t", "a", "/", "v", "a", "l", "i", "d",
      "-", "e", "a", "s", "y", ".", "s", "d", "k">>
INVALID_LENGTH_SDK ==
    <<"t", "e", "s", "t", "d", "a", "t", "a", "/", "i", "n", "v", "a", "l",
      "i", "d", "-", "l", "e", "n", "g", "t", "h", ".", "s", "d", "k">>
INVALID_CHARS_SDK ==
    <<"t", "e", "s", "t", "d", "a", "t", "a", "/", "i", "n", "v", "a", "l",
      "i", "d", "-", "c", "h", "a", "r", "s", ".", "s", "d", "k">>
TESTDATA_DIR ==
    <<"t", "e", "s", "t", "d", "a", "t", "a">>
MISSING_SDK ==
    <<"m", "i", "s", "s", "i", "n", "g", ".", "s", "d", "k">>
TESTDATA_MISSING_SDK ==
    <<"t", "e", "s", "t", "d", "a", "t", "a", "/", "m", "i", "s", "s", "i",
      "n", "g", ".", "s", "d", "k">>

TestData ==
    (VALID_EASY_SDK :> [readable |-> TRUE, error |-> "",
                        contents |-> VALID_PUZZLE_STRING \o <<"\n">>])
    @@ (INVALID_LENGTH_SDK :> [readable |-> TRUE, error |-> "",
                               contents |-> SubSeq(VALID_PUZZLE_STRING, 1, 40) \o <<"\n">>])
    @@ (INVALID_CHARS_SDK :> [readable |-> TRUE, error |-> "",
                              contents |-> SubSeq(VALID_PUZZLE_STRING, 1, 80) \o <<"X", "\n">>])
    @@ (TESTDATA_DIR :> [readable |-> FALSE, contents |-> <<>>,
                         error |-> "EISDIR: illegal operation on a directory, read"])

\* the strings that name a file
PathInputs ==
    {VALID_EASY_SDK, INVALID_LENGTH_SDK, INVALID_CHARS_SDK, MISSING_SDK,
     TESTDATA_MISSING_SDK}

\* the strings of the parser tests and of the README, and strings in which
\* white space or a wrong length meets a wrong character
ParseInputs ==
    PathInputs \cup
    {TESTDATA_DIR,
     VALID_PUZZLE_STRING,
     <<"5">> \o Repeat(".", 80),
     <<" ", " ">> \o VALID_PUZZLE_STRING \o <<" ", " ", "\n">>,
     <<"1", "2", "3", "4", "5", "6", "7", "8">>,
     VALID_PUZZLE_STRING \o <<"1">>,
     SubSeq(VALID_PUZZLE_STRING, 1, 80) \o <<"X">>,
     SubSeq(VALID_PUZZLE_STRING, 1, 80) \o <<"#">>,
     <<"t", "o", "o", "-", "s", "h", "o", "r", "t">>,
     SubSeq(VALID_PUZZLE_STRING, 1, 78) \o <<"@", "@", "@">>,
     SubSeq(VALID_PUZZLE_STRING, 1, 40) \o <<" ">> \o SubSeq(VALID_PUZZLE_STRING, 42, 81),
     SubSeq(VALID_PUZZLE_STRING, 1, 79) \o <<" ", " ">>,
     <<"\t">> \o SubSeq(VALID_PUZZLE_STRING, 1, 80) \o <<"X", "\n">>,
     VALID_PUZZLE_STRING \o <<"X">>,
     Repeat(" ", 81),
     Repeat("9", 81),
     <<>>}

ParseInit ==
    /\ pc = "parse_start"
    /\ call = 1
    /\ difficulty = "easy"
    /\ seed = Num(0)
    /\ state = Num(0)
    /\ draws = 0
    /\ heap = EmptyHeap
    /\ puzzle = NoRef
    /\ solution = NoRef
    /\ fillStack = <<>>
    /\ array = <<>>
    /\ shuffleI = 0
    /\ targetClues = 0
    /\ indices = <<>>
    /\ pos = 0
    /\ cluesRemaining = 0
    /\ backup = 0
    /\ input = NoRef
    /\ workingPuzzle = NoRef
    /\ stack = <<>>
    /\ count = 0
    /\ limit = 0
    /\ caller = "test"
    /\ result = NoRef
    /\ solveResult = NoRef
    /\ solutionCount = 0
    /\ snapshot = NoGrid
    /\ first = NoRef
    /\ streams = <<>>
    /\ validated = NoRef
    /\ suspended = NoRef
    /\ alone = <<>>
    /\ phase = 0
    /\ \E present \in SUBSET DOMAIN TestData :
         disk = [path \in present |-> TestData[path]]
    /\ argument \in ParseInputs
    /\ puzzleString = <<>>
    /\ parsed = <<>>

\* parsePuzzleInput(input) up to `return parsePuzzleString(puzzleString)`, or
\* to the error readPuzzleFile throws
ParseInput ==
    /\ pc = "parse_start"
    /\ IF existsSync(argument)
       THEN LET file == readPuzzleFile(argument)
            IN  IF file.threw
                THEN /\ parsed' = <<file>>
                     /\ pc' = "parse_done"
                     /\ UNCHANGED puzzleString
                ELSE /\ puzzleString' = file.value
                     /\ pc' = "parse_string"
                     /\ UNCHANGED parsed
       ELSE /\ puzzleString' = argument
            /\ pc' = "parse_string"
            /\ UNCHANGED parsed
    /\ UNCHANGED <<call, heap, puzzle, solution, result, solveResult,
                   solutionCount, snapshot, first, streams, groupsGen,
                   groupsFill, groupsShuffle, groupsRng, groupsSearch,
                   groupsPair, disk, argument>>

\* return parsePuzzleString(puzzleString)
ParseString ==
    /\ pc = "parse_string"
    /\ parsed' = <<parsePuzzleString(puzzleString)>>
    /\ pc' = "parse_done"
    /\ UNCHANGED <<call, heap, puzzle, solution, result, solveResult,
                   solutionCount, snapshot, first, streams, groupsGen,
                   groupsFill, groupsShuffle, groupsRng, groupsSearch,
                   groupsPair, disk, argument, puzzleString>>

\* a test calls parsePuzzleString(raw) itself
ParseStringAlone ==
    /\ pc = "parse_start"
    /\ parsed' = <<parsePuzzleString(argument)>>
    /\ pc' = "parse_string_done"
    /\ UNCHANGED <<call, heap, puzzle, solution, result, solveResult,
                   solutionCount, snapshot, first, streams, groupsGen,
                   groupsFill, groupsShuffle, groupsRng, groupsSearch,
                   groupsPair, disk, argument, puzzleString>>

ParseNext ==
    \/ ParseInput
    \/ ParseString
    \/ ParseStringAlone

ParseSpec == ParseInit /\ [][ParseNext]_vars


\* C23 as claimed: when the input names a file that does not exist on disk,
\* parsePuzzleInput fails with FILE_NOT_FOUND and the message
\* 'File not found: <path>'.
C23_MissingFileIsFileNotFound ==
    (pc = "parse_done" /\ argument \in PathInputs /\ argument \notin DOMAIN disk) =>
        /\ parsed[1].threw
        /\ parsed[1].code = "FILE_NOT_FOUND"
        /\ parsed[1].message = <<"File not found: ", argument>>

\* the string parsePuzzleString was called with, once it has returned
stringParsed ==
    /\ pc \in {"parse_done", "parse_string_done"}
    /\ parsed[1].code \notin {"FILE_NOT_FOUND", "FILE_READ_ERROR"}

rawParsed == IF pc = "parse_string_done" THEN argument ELSE puzzleString

\* <<a, b>> such that raw is white space, then raw[a..b], then white space,
\* and raw[a..b] neither starts nor ends with white space
trimCuts(raw) ==
    {cut \in (1..(Len(raw) + 1)) \X (0..Len(raw)) :
        /\ cut[1] <= cut[2] + 1
        /\ \A k \in 1..(cut[1] - 1) : raw[k] \in WhiteSpace
        /\ \A k \in (cut[2] + 1)..Len(raw) : raw[k] \in WhiteSpace
        /\ cut[1] <= cut[2] => (raw[cut[1]] \notin WhiteSpace /\ raw[cut[2]] \notin WhiteSpace)}

illegalChars(t) == {k \in 1..Len(t) : t[k] \notin AllowedChars}

\* C24: parsePuzzleString classifies its input in a fixed order: a trimmed
\* length other than 81 gives INVALID_LENGTH whatever the characters are;
\* otherwise a character outside 0-9 and '.' gives INVALID_CHARACTERS;
\* otherwise it returns 81 integers of 0..9, 0 for '.' and '0' and the value of
\* the digit for '1' to '9'.
C24_LengthThenCharactersThenDigits ==
    stringParsed =>
        \A cut \in trimCuts(rawParsed) :
            LET t   == SubSeq(rawParsed, cut[1], cut[2])
                out == parsed[1]
            IN  /\ Len(t) # 81 => (out.threw /\ out.code = "INVALID_LENGTH")
                /\ (Len(t) = 81 /\ illegalChars(t) # {}) =>
                       (out.threw /\ out.code = "INVALID_CHARACTERS")
                /\ (Len(t) = 81 /\ illegalChars(t) = {}) =>
                       /\ ~out.threw
                       /\ DOMAIN out.value = 0..80
                       /\ \A c \in 0..80 :
                            /\ out.value[c] \in 0..9
                            /\ t[c + 1] \in {".", "0"} => out.value[c] = 0
                            /\ t[c + 1] \notin {".", "0"} =>
                                 (out.value[c] \in 1..9 /\ DigitChars[out.value[c]] = t[c + 1])

\* a string of the wrong length that also holds illegal characters came back
\* as INVALID_LENGTH
C24_Witness ==
    /\ pc = "parse_string_done"
    /\ Len(trim(argument)) \notin {0, 81}
    /\ illegalChars(trim(argument)) # {}
    /\ parsed[1].threw
    /\ parsed[1].code = "INVALID_LENGTH"


(***************************************************************************)
(* One call of generatePuzzle followed from its first draw to its return,  *)
(* and the returned puzzle probed one clue at a time                       *)
(***************************************************************************)
\* an easy call that reaches its target and a hard call that does not
WalkCalls == {<<"easy", 12770>>, <<"hard", 12770>>}

WalkInit ==
    /\ pc = "gen_start"
    /\ call = 1
    /\ \E c \in WalkCalls : /\ difficulty = c[1]
                            /\ seed = Num(c[2])
    /\ Idle

\* The walk ended above its target: the puzzle returned is copied, one of its
\* clues is blanked in the copy and countSolutions(copy, 2) is called, the
\* test removeClues applies to a clue.
TestMinimal ==
    /\ pc = "gen_done"
    /\ cluesRemaining > targetClues
    /\ \E index \in Cells :
         /\ heap[result.puzzle][index] # 0
         /\ heap' = [heap EXCEPT !["given"] = [heap[result.puzzle] EXCEPT ![index] = 0]]
         /\ snapshot' = [heap[result.puzzle] EXCEPT ![index] = 0]
    /\ input' = "given"
    /\ limit' = 2
    /\ caller' = "test"
    /\ pc' = "count_start"
    /\ UNCHANGED <<puzzle, solution, result, workingPuzzle, stack, count,
                   solveResult, solutionCount, first, streams, call, groupsGen,
                   groupsFill, groupsShuffle, groupsRng, groupsPair,
                   groupsParse>>

WalkNext ==
    \/ GenStart
    \/ FillCall
    \/ ShuffleStep
    \/ FillShuffled
    \/ FillLoop
    \/ GenValidate
    \/ RemoveShuffled
    \/ RemoveIter
    \/ CountStart
    \/ CountCall
    \/ CountLoop
    \/ RemoveDecide
    \/ TestMinimal
    \/ TestCounted

WalkSpec == WalkInit /\ [][WalkNext]_vars


\* countSolutions is running for removeClues: a clue has been blanked on trial
removalOnTrial ==
    /\ caller = "remove"
    /\ pc \in {"count_start", "count_call", "count_loop", "count_return"}

\* C25: the removal walk never takes the clue count below the target: a
\* removal is tried only while more clues than the target remain, and the
\* puzzle returned has at least the target number of clues, and exactly that
\* number unless the walk has visited all 81 indices.
C25_RemovalStopsAtTarget ==
    /\ (pc = "remove_loop" \/ removalOnTrial) =>
           /\ cluesRemaining >= targetClues
           /\ clueCount(heap[puzzle]) >= targetClues
    /\ removalOnTrial => cluesRemaining > targetClues
    /\ pc = "gen_done" =>
           LET n == clueCount(heap[result.puzzle])
           IN  /\ n >= targetClues
               /\ (n = targetClues \/ pos = Length(indices))

\* an easy puzzle is returned with exactly its target number of clues, before
\* the walk has visited every index
C25_Witness ==
    /\ pc = "gen_done"
    /\ difficulty = "easy"
    /\ clueCount(heap[result.puzzle]) = targetClues
    /\ cluesRemaining = targetClues
    /\ pos < Length(indices)
    /\ pos >= 81 - targetClues


\* the cells of the returned puzzle that the grid just counted has blanked
probed == {c \in Cells : snapshot[c] = 0 /\ heap[result.puzzle][c] # 0}

\* position in the walk at which index c was visited
visitedAt(c) == CHOOSE k \in 0..80 : indices[k] = c

\* C26: when the walk has visited all 81 indices without reaching the target,
\* the puzzle returned is locally minimal: with any single one of its clues
\* blanked, countSolutions(grid, 2) does not return 1, also for the clues whose
\* removal was rejected early in the walk, when more clues were present.
C26_PlateauIsLocallyMinimal ==
    /\ (pc = "gen_done" /\ cluesRemaining > targetClues) => pos = Length(indices)
    /\ (pc = "test_counted" /\ cluesRemaining > targetClues) =>
           /\ Cardinality(probed) = 1
           /\ \A c \in Cells \ probed : snapshot[c] = heap[result.puzzle][c]
           /\ solutionCount # 1

\* the clue probed is one the walk tried and restored when more clues were
\* present than the puzzle returned has, and blanking it leaves two solutions
C26_Witness ==
    /\ pc = "test_counted"
    /\ difficulty = "hard"
    /\ pos = Length(indices)
    /\ cluesRemaining > targetClues
    /\ solutionCount = 2
    /\ \E c \in probed : visitedAt(c) < 81 - cluesRemaining


\* this step draws from the generator
drew == state' # state

FillPcs == {"fill_call", "fill_shuffle", "fill_loop"}

\* C27: within one generatePuzzle call the draws come in a fixed order: first
\* the draws of the grid fill, one shuffle of the nine digits (8 draws) each
\* time the fill visits a cell; then the one draw of the target; then the 80
\* draws of the shuffle of the 81 indices.  The removal walk and countSolutions
\* draw nothing.
C27_DrawOrder ==
    /\ [](/\ pc \in {"fill_call", "fill_loop", "gen_validate"} =>
                (draws % 8 = 0 /\ draws >= 8 * Len(fillStack))
          /\ pc = "gen_validate" => draws >= 8 * 81
          /\ pc \in RemovalPcs \ {"remove_shuffle"} =>
                ((draws - 81) % 8 = 0 /\ draws >= 8 * 81 + 1 + 80))
    /\ [][pc # "gen_start" =>
            /\ drew <=> (draws' = draws + 1)
            /\ ~drew => draws' = draws
            /\ drew => (/\ state' = next(state).state
                        /\ pc \in {"fill_shuffle", "gen_validate", "remove_shuffle"})
            /\ (pc = "fill_call" /\ pc' = "fill_shuffle") =>
                   (~drew /\ Length(array') = 9 /\ shuffleI' = 8)
            /\ (pc \in ShufflePcs /\ pc' = pc) =>
                   (drew /\ shuffleI >= 1 /\ shuffleI' = shuffleI - 1)
            /\ (pc \in ShufflePcs /\ pc' # pc) => (~drew /\ shuffleI = 0)
            /\ pc = "gen_validate" =>
                   (/\ drew
                    /\ targetClues' = nextInt(state, DIFFICULTY_CLUES[difficulty].min,
                                              DIFFICULTY_CLUES[difficulty].max).value
                    /\ pc' = "remove_shuffle"
                    /\ Length(array') = 81
                    /\ shuffleI' = 80)
            /\ pc \notin FillPcs => pc' \notin FillPcs]_vars

\* the call has returned after a fill that visited a cell more than once, the
\* target draw and the 80 draws of the index shuffle
C27_Witness ==
    /\ pc = "gen_done"
    /\ draws > 8 * 81 + 1 + 80
    /\ (draws - 81) % 8 = 0
    /\ cluesRemaining < 81


\* the rule-satisfying completions of a grid with few blanks
completionsOf(g) ==
    {s \in {[c \in Cells |-> IF g[c] = 0 THEN f[c] ELSE g[c]] :
                f \in [Blanks(g) -> Digits]} : satisfiesRules(s)}

\* a comes before b, or is b, in the order that compares the cells from index 0
lexLeq(a, b) ==
    \/ a = b
    \/ LET c == Min({k \in Cells : a[k] # b[k]}) IN a[c] < b[c]

\* C28: the solution solvePuzzle returns is, among all completions of the
\* grid, the smallest in lexicographic order of the cells in flat-index order.
C28_SolutionIsLexSmallest ==
    (pc = "solve_done" /\ DOMAIN snapshot = Cells /\ fewBlanks(snapshot)) =>
        LET all == completionsOf(snapshot)
        IN  IF validatePuzzle(snapshot).isValid /\ all # {}
            THEN /\ solveResult.status = "solved"
                 /\ heap[solveResult.solution] \in all
                 /\ \A s \in all : lexLeq(heap[solveResult.solution], s)
            ELSE solveResult.status # "solved"

\* a grid with two completions was solved to the one that is smaller at the
\* first cell where they differ
C28_Witness ==
    /\ pc = "solve_done"
    /\ DOMAIN snapshot = Cells
    /\ fewBlanks(snapshot)
    /\ Cardinality(completionsOf(snapshot)) = 2
    /\ solveResult.status = "solved"
    /\ \E s \in completionsOf(snapshot) :
         /\ s # heap[solveResult.solution]
         /\ lexLeq(heap[solveResult.solution], s)


\* the grid of the test with the digits the first n active calls of
\* solveRecursive have placed: frame k holds the digit after the one it placed
gridOfCalls(n) ==
    [c \in Cells |->
        IF \E k \in 1..n : stack[k].emptyIndex = c
        THEN stack[CHOOSE k \in 1..n : stack[k].emptyIndex = c].digit - 1
        ELSE snapshot[c]]

\* C29: while solvePuzzle searches a rule-valid grid, the given cells never
\* change and the working grid never holds a duplicate in a row, column or
\* box; when a call of solveRecursive returns failure the grid is exactly as
\* it was when that call started: the givens and the digits of its callers.
C29_SearchKeepsGridSound ==
    /\ (pc \in {"solve_call", "solve_loop"} /\ caller = "test") =>
           LET work == heap[workingPuzzle]
           IN  /\ validatePuzzle(snapshot).isValid
               /\ \A c \in Cells : snapshot[c] # 0 => work[c] = snapshot[c]
               /\ ~hasDuplicate(work)
               /\ \A k \in 1..Len(stack) : snapshot[stack[k].emptyIndex] = 0
               /\ pc = "solve_call" => work = gridOfCalls(Len(stack))
               /\ pc = "solve_loop" => work = gridOfCalls(Len(stack) - 1)
    /\ (pc = "solve_done" /\ solveResult.status = "unsolvable") =>
           heap[workingPuzzle] = snapshot

\* a call of solveRecursive has returned failure to a caller that had placed a
\* digit: the caller's cell is blank again and the caller goes on with the
\* next digit
C29_Witness ==
    /\ pc = "solve_loop"
    /\ Len(stack) >= 2
    /\ stack[Len(stack)].digit > 1
    /\ heap[workingPuzzle][stack[Len(stack)].emptyIndex] = 0
    /\ heap[workingPuzzle] = gridOfCalls(Len(stack) - 1)
    /\ heap[workingPuzzle] # snapshot


\* C30: at the start of every iteration of the removal walk cluesRemaining is
\* the number of non-zero cells of the puzzle; the walk visits every index at
\* most once, so the cell it comes to is never empty already and the `skip if
\* already empty` branch is never taken.
C30_CountMatchesAndNoSkip ==
    pc = "remove_loop" =>
        /\ cluesRemaining = clueCount(heap[puzzle])
        /\ DOMAIN indices = Cells
        /\ \A a, b \in Cells : a # b => indices[a] # indices[b]
        /\ \A k \in Cells :
             IF k < pos
             THEN heap[puzzle][indices[k]] \in {0, heap[solution][indices[k]]}
             ELSE heap[puzzle][indices[k]] = heap[solution][indices[k]]
                  /\ heap[puzzle][indices[k]] # 0

\* an iteration starts after clues were removed and others restored, at an
\* index not visited before whose cell still holds its digit
C30_Witness ==
    /\ pc = "remove_loop"
    /\ pos > 81 - cluesRemaining
    /\ cluesRemaining < 81
    /\ cluesRemaining > targetClues
    /\ pos < Length(indices)
    /\ heap[puzzle][indices[pos]] # 0
    /\ cluesRemaining = clueCount(heap[puzzle])

====
